---- MODULE Spec2Model ----
(***************************************************************************)
(* PromMSD: the instance registry and the reconciler of                    *)
(* pkg/alertchecker (AlertChecker), with the heartbeat model of            *)
(* pkg/alertmanager it reads.                                              *)
(*                                                                         *)
(* Time is counted in seconds.  The zero time.Time is 0 and the clock      *)
(* starts far enough after it that no interval added to the zero time      *)
(* reaches the present, as is the case for the wall clock.                 *)
(*                                                                         *)
(* A string the code takes apart is given in parsed form:                  *)
(*   - an annotation text is a sequence of lines, a line a sequence of     *)
(*     atoms, an atom either the space SP or a word;                       *)
(*   - url.Parse and time.ParseDuration are tables over the words used.    *)
(***************************************************************************)
EXTENDS Integers, Sequences, FiniteSets, TLC

VARIABLES
    now,        \* the clock read by ac.now()
    ticked,     \* the ticker's tick for this time has been served
    monitored,  \* ac.monitored: key -> instanceDetails
    handleChan, \* the handleAlert messages whose sender is blocked on ac.handleChan,
                \* each with whether it has been the only one of its key there
    healthChan, \* how many senders are blocked on ac.healthChan
    mu,         \* the request that holds ac's lock between two steps, if any
    pc,         \* the checker goroutine: "select", or "wait" (in wg.Wait)
    toAlert,    \* the delivery workers of the running checkMonitored, by key
    tick,       \* what the running checkMonitored decided under the lock
    hist,       \* per registry entry, what is remembered of its deliveries
    reply,      \* the HTTP response written last
    instanceMetric, \* the gauge prommsd_alertchecker_monitored_instances
    errorsMetric,   \* the counters prommsd_alerthook_errors_total, by type
    events,     \* how many clock steps and requests there have been
    scenario    \* which heartbeats the upstream sends and how the clock moves

vars == <<now, ticked, monitored, handleChan, healthChan, mu, pc, toAlert, tick, hist,
          reply, events, scenario, instanceMetric, errorsMetric>>

----------------------------------------------------------------------------
(* Constants of the program *)

defaultActivation == 600
sendInterval == 60
slackSendInterval == 1200
resolveRepeat == 900
expireTime == 7200
fanoutTimeout == 60

amTimeout == 20
tickPeriod == 5

ZeroTime == 0

\* net/http status codes
StatusOK == 200
StatusBadRequest == 400
StatusInternalServerError == 500
StatusServiceUnavailable == 503

\* The clock at construction.
StartTime == expireTime + slackSendInterval

(* Bounds of the model *)

MaxEvents == 6
MaxPending == 1

----------------------------------------------------------------------------
(* pkg/alertmanager: Message and Alert *)

SP == " "

EmptyMap == [x \in {} |-> ""]

Has(m, k) == k \in DOMAIN m

NoParent == << >>

Message(receiver, externalURL, groupLabels, commonLabels, commonAnnotations) ==
    [Receiver |-> receiver, ExternalURL |-> externalURL,
     GroupLabels |-> groupLabels, CommonLabels |-> commonLabels,
     CommonAnnotations |-> commonAnnotations]

NewAlert ==
    [Status |-> "firing", Labels |-> EmptyMap, Annotations |-> EmptyMap,
     Parent |-> NoParent]

GetLabel(a, key) ==
    IF Has(a.Labels, key) THEN [value |-> a.Labels[key], ok |-> TRUE]
    ELSE IF a.Parent = NoParent THEN [value |-> "", ok |-> FALSE]
    ELSE IF Has(a.Parent[1].CommonLabels, key)
        THEN [value |-> a.Parent[1].CommonLabels[key], ok |-> TRUE]
    ELSE IF Has(a.Parent[1].GroupLabels, key)
        THEN [value |-> a.Parent[1].GroupLabels[key], ok |-> TRUE]
    ELSE [value |-> "", ok |-> FALSE]

GetLabelDefault(a, key, def) ==
    IF GetLabel(a, key).ok THEN GetLabel(a, key).value ELSE def

GetAnnotation(a, key) ==
    IF Has(a.Annotations, key) THEN [value |-> a.Annotations[key], ok |-> TRUE]
    ELSE IF a.Parent = NoParent THEN [value |-> "", ok |-> FALSE]
    ELSE IF Has(a.Parent[1].CommonAnnotations, key)
        THEN [value |-> a.Parent[1].CommonAnnotations[key], ok |-> TRUE]
    ELSE [value |-> "", ok |-> FALSE]

GetAnnotationDefault(a, key, def) ==
    IF GetAnnotation(a, key).ok THEN GetAnnotation(a, key).value ELSE def

\* for k, v := range over { l[k] = v }
Overlay(l, over) ==
    [k \in DOMAIN l \cup DOMAIN over |-> IF k \in DOMAIN over THEN over[k] ELSE l[k]]

GetLabels_GroupOverCommon(a) ==
    IF a.Parent = NoParent THEN a.Labels
    ELSE Overlay(Overlay(a.Parent[1].CommonLabels, a.Parent[1].GroupLabels), a.Labels)

GetLabels(a) ==
    IF a.Parent = NoParent THEN a.Labels
    ELSE Overlay(Overlay(a.Parent[1].GroupLabels, a.Parent[1].CommonLabels), a.Labels)

GetAnnotations(a) ==
    IF a.Parent = NoParent THEN a.Annotations
    ELSE Overlay(a.Parent[1].CommonAnnotations, a.Annotations)

----------------------------------------------------------------------------
(* splitAnnotation *)

RECURSIVE TrimLeft(_)
TrimLeft(line) ==
    IF line # << >> /\ Head(line) = SP THEN TrimLeft(Tail(line)) ELSE line

RECURSIVE TrimRight(_)
TrimRight(line) ==
    IF line # << >> /\ line[Len(line)] = SP
    THEN TrimRight(SubSeq(line, 1, Len(line) - 1)) ELSE line

TrimSpace(line) == TrimRight(TrimLeft(line))

\* strings.Split(text, " "): the words between the spaces, the empty word
\* between two adjacent spaces.
RECURSIVE SplitSpace(_, _)
SplitSpace(text, word) ==
    IF text = << >> THEN <<word>>
    ELSE IF Head(text) = SP THEN <<word>> \o SplitSpace(Tail(text), "")
    ELSE SplitSpace(Tail(text), Head(text))

RECURSIVE splitAnnotation(_)
splitAnnotation(s) ==
    IF s = << >> THEN << >>
    ELSE LET text == TrimSpace(Head(s))
         IN  IF text = << >> \/ text[1] = "#"
             THEN splitAnnotation(Tail(s))
             ELSE SplitSpace(text, "") \o splitAnnotation(Tail(s))

----------------------------------------------------------------------------
(* Strings: order, quoting, the parsers of the standard library *)

\* The words that are compared by sort.Strings, in byte order.
StrOrder == <<"", "a", "alertname", "b", "c", "cluster", "job", "namespace", "severity">>

Rank(s) == CHOOSE i \in 1..Len(StrOrder) : StrOrder[i] = s

\* fmt.Sprintf("%q", v)
Quote(v) == <<"\"", v, "\"">>

\* id + "=" + quoted value, as the pieces of the string
IdItem(id, value) == <<id, "=", Quote(value)>>

ItemLess(x, y) ==
    \/ Rank(x[1]) < Rank(y[1])
    \/ x[1] = y[1] /\ Rank(x[3][2]) < Rank(y[3][2])

RECURSIVE Insert(_, _)
Insert(x, sorted) ==
    IF sorted = << >> THEN <<x>>
    ELSE IF ItemLess(Head(sorted), x) THEN <<Head(sorted)>> \o Insert(x, Tail(sorted))
    ELSE <<x>> \o sorted

RECURSIVE sortStrings(_)
sortStrings(items) ==
    IF items = << >> THEN << >> ELSE Insert(Head(items), sortStrings(Tail(items)))

\* strings.Join(ids, " "): the items in order; an item holds no unquoted space
Join(items) == items

\* time.ParseDuration on the annotation texts used
ParseDuration(text) ==
    IF text = <<<<"10m">>>> THEN [d |-> 600, err |-> FALSE]
    ELSE IF text = <<<<"60s">>>> THEN [d |-> 60, err |-> FALSE]
    ELSE IF text = <<<<"5s">>>> THEN [d |-> 5, err |-> FALSE]
    ELSE IF text = <<<<"30m">>>> THEN [d |-> 1800, err |-> FALSE]
    ELSE [d |-> 0, err |-> TRUE]

urlParse_Lenient(word) ==
    CASE word = "http://am1" -> [err |-> FALSE, Scheme |-> <<"http">>]
      [] word = "http://am2" -> [err |-> FALSE, Scheme |-> <<"http">>]
      [] word = "webhook+http://handler" -> [err |-> FALSE, Scheme |-> <<"webhook", "http">>]
      [] word = "slack+http://hook" -> [err |-> FALSE, Scheme |-> <<"slack", "http">>]
      [] word = "pigeon+http://dest" -> [err |-> FALSE, Scheme |-> <<"pigeon", "http">>]
      [] word = "carrier-pigeon://dest" -> [err |-> FALSE, Scheme |-> <<"carrier-pigeon">>]
      [] OTHER -> [err |-> FALSE, Scheme |-> <<"">>]

\* url.Parse on the destination words used: the scheme as its pieces between
\* "+" signs, or an error
urlParse(word) ==
    CASE word = "http://am1" -> [err |-> FALSE, Scheme |-> <<"http">>]
      [] word = "http://am2" -> [err |-> FALSE, Scheme |-> <<"http">>]
      [] word = "webhook+http://handler" -> [err |-> FALSE, Scheme |-> <<"webhook", "http">>]
      [] word = "slack+http://hook" -> [err |-> FALSE, Scheme |-> <<"slack", "http">>]
      [] word = "pigeon+http://dest" -> [err |-> FALSE, Scheme |-> <<"pigeon", "http">>]
      [] word = "carrier-pigeon://dest" -> [err |-> FALSE, Scheme |-> <<"carrier-pigeon">>]
      [] word = "" -> [err |-> FALSE, Scheme |-> <<"">>]
      [] OTHER -> [err |-> TRUE, Scheme |-> << >>]

\* strings.SplitN(override, "=", 2) on the override words used
SplitEq(word) ==
    CASE word = "severity=critical" -> <<"severity", "critical">>
      [] word = "severity=a" -> <<"severity", "a">>
      [] word = "severity=b" -> <<"severity", "b">>
      [] word = "alertname=b" -> <<"alertname", "b">>
      [] word = "job=b" -> <<"job", "b">>
      [] word = "a=b=c" -> <<"a", "b=c">>
      [] OTHER -> <<word>>

\* strings.HasPrefix(k, annotationPrefix), and k[len(annotationPrefix):], on the
\* annotation names used
CutPrefix(k) ==
    CASE k = "msda_" -> [has |-> TRUE, rest |-> ""]
      [] k = "msda_test" -> [has |-> TRUE, rest |-> "test"]
      [] k = "msda_other" -> [has |-> TRUE, rest |-> "other"]
      [] k = "msda_msda_test" -> [has |-> TRUE, rest |-> "msda_test"]
      [] OTHER -> [has |-> FALSE, rest |-> k]

\* The schemes http.DefaultTransport can send on.
TransportSchemes == {<<"http">>, <<"https">>}

----------------------------------------------------------------------------
(* HandleAlert: the key and the proposed instance of a heartbeat *)

defaultIdentifiers == <<<<"job", SP, "namespace", SP, "cluster">>>>

RECURSIVE idItems(_, _)
idItems(alert, ids) ==
    IF ids = << >> THEN << >>
    ELSE <<IdItem(Head(ids), GetLabelDefault(alert, Head(ids), ""))>>
            \o idItems(alert, Tail(ids))

dropped_Never(alert) == FALSE

\* The heartbeat is ignored.
dropped(alert) == alert.Status = "resolved"

alertKey_Unsorted(alert) ==
    LET identifierLabels == GetAnnotationDefault(alert, "msd_identifiers", defaultIdentifiers)
    IN  Join(idItems(alert, splitAnnotation(identifierLabels)))

alertKey(alert) ==
    LET identifierLabels == GetAnnotationDefault(alert, "msd_identifiers", defaultIdentifiers)
    IN  Join(sortStrings(idItems(alert, splitAnnotation(identifierLabels))))

activationDuration_NoFallback(alert) ==
    ParseDuration(GetAnnotationDefault(alert, "msd_activation", <<<<"10m">>>>)).d

\* HandleAlert: the activation window of the heartbeat, the default one when
\* msd_activation does not parse.
activationDuration(alert) ==
    LET p == ParseDuration(GetAnnotationDefault(alert, "msd_activation", <<<<"10m">>>>))
    IN  IF p.err THEN defaultActivation ELSE p.d

newInstance_DefaultWindow(alert, t) ==
    [ActivateAt     |-> t + defaultActivation,
     AlertManagers  |-> splitAnnotation(GetAnnotationDefault(alert, "msd_alertmanagers",
                                            <<<<alert.Parent[1].ExternalURL>>>>)),
     AlertName      |-> GetAnnotationDefault(alert, "msd_alertname", "NoAlertConnectivity"),
     Receiver       |-> alert.Parent[1].Receiver,
     OverrideLabels |-> splitAnnotation(GetAnnotationDefault(alert, "msd_override_labels",
                                            <<<<"severity=critical">>>>)),
     LastAlert      |-> alert,
     LastSent       |-> ZeroTime,
     ActivatedAt    |-> ZeroTime,
     ResolvedAt     |-> ZeroTime,
     LastError      |-> ""]

newInstance(alert, t) ==
    [ActivateAt     |-> t + activationDuration(alert),
     AlertManagers  |-> splitAnnotation(GetAnnotationDefault(alert, "msd_alertmanagers",
                                            <<<<alert.Parent[1].ExternalURL>>>>)),
     AlertName      |-> GetAnnotationDefault(alert, "msd_alertname", "NoAlertConnectivity"),
     Receiver       |-> alert.Parent[1].Receiver,
     OverrideLabels |-> splitAnnotation(GetAnnotationDefault(alert, "msd_override_labels",
                                            <<<<"severity=critical">>>>)),
     LastAlert      |-> alert,
     LastSent       |-> ZeroTime,
     ActivatedAt    |-> ZeroTime,
     ResolvedAt     |-> ZeroTime,
     LastError      |-> ""]

----------------------------------------------------------------------------
(* updateInstance *)

replaceInstance_ResetLastSent(oldInstance, instance, t) ==
    [instance EXCEPT
        !.ResolvedAt  = IF oldInstance.LastSent > oldInstance.ActivateAt
                        THEN t ELSE oldInstance.ResolvedAt,
        !.ActivatedAt = oldInstance.ActivatedAt,
        !.LastError   = oldInstance.LastError]

replaceInstance_ResolvedAtActivateAt(oldInstance, instance, t) ==
    [instance EXCEPT
        !.ResolvedAt  = IF oldInstance.LastSent > oldInstance.ActivateAt
                        THEN oldInstance.ActivateAt ELSE oldInstance.ResolvedAt,
        !.ActivatedAt = oldInstance.ActivatedAt,
        !.LastSent    = oldInstance.LastSent,
        !.LastError   = oldInstance.LastError]

replaceInstance_AlwaysResolved(oldInstance, instance, t) ==
    [instance EXCEPT
        !.ResolvedAt  = t,
        !.ActivatedAt = oldInstance.ActivatedAt,
        !.LastSent    = oldInstance.LastSent,
        !.LastError   = oldInstance.LastError]

\* The record stored for a key that is already monitored: the proposed
\* instance with the fields carried over from the old one.
replaceInstance(oldInstance, instance, t) ==
    [instance EXCEPT
        !.ResolvedAt  = IF oldInstance.LastSent > oldInstance.ActivateAt
                        THEN t ELSE oldInstance.ResolvedAt,
        !.ActivatedAt = oldInstance.ActivatedAt,
        !.LastSent    = oldInstance.LastSent,
        !.LastError   = oldInstance.LastError]

updateInstance_InsertOnly(reg, key, instance, t) ==
    IF key \in DOMAIN reg
    THEN reg
    ELSE [k \in DOMAIN reg \cup {key} |-> IF k = key THEN instance ELSE reg[k]]

updateInstance(reg, key, instance, t) ==
    IF key \in DOMAIN reg
    THEN [reg EXCEPT ![key] = replaceInstance(reg[key], instance, t)]
    ELSE [k \in DOMAIN reg \cup {key} |-> IF k = key THEN instance ELSE reg[k]]

----------------------------------------------------------------------------
(* checkMonitored: the decisions taken for one instance under the lock *)

active(instance, t) == t > instance.ActivateAt

sendResolved_NoWindow(instance, t) == instance.ResolvedAt # ZeroTime

sendResolved(instance, t) == t < instance.ResolvedAt + resolveRepeat

sendDue_NoInterval(instance, t) == t > instance.LastSent

sendDue(instance, t) == t > instance.LastSent + sendInterval

pastExpiry(instance, t) == t > instance.ActivateAt + expireTime

alerting_Unguarded(instance, t) == sendDue(instance, t)

alerting_NotWhenExpiring(instance, t) ==
    /\ (active(instance, t) \/ sendResolved(instance, t)) /\ sendDue(instance, t)
    /\ ~pastExpiry(instance, t)

\* the instance is appended to toAlert
alerting(instance, t) ==
    (active(instance, t) \/ sendResolved(instance, t)) /\ sendDue(instance, t)

expires_OnlyWhenDue(instance, t) ==
    alerting(instance, t) /\ pastExpiry(instance, t)

\* the instance is deleted from ac.monitored
expires(instance, t) ==
    (active(instance, t) \/ sendResolved(instance, t)) /\ pastExpiry(instance, t)

checked_EveryDueTick(instance, t) ==
    IF alerting(instance, t) /\ active(instance, t)
    THEN [instance EXCEPT !.ActivatedAt = t]
    ELSE instance

checked_ClearsResolvedAt(instance, t) ==
    IF alerting(instance, t) /\ active(instance, t)
            /\ instance.ActivateAt > instance.ActivatedAt
    THEN [instance EXCEPT !.ActivatedAt = t, !.ResolvedAt = ZeroTime]
    ELSE instance

checked_AtActivateAt(instance, t) ==
    IF alerting(instance, t) /\ active(instance, t)
            /\ instance.ActivateAt > instance.ActivatedAt
    THEN [instance EXCEPT !.ActivatedAt = instance.ActivateAt]
    ELSE instance

\* the instance as the loop body leaves it
checked(instance, t) ==
    IF alerting(instance, t) /\ active(instance, t)
            /\ instance.ActivateAt > instance.ActivatedAt
    THEN [instance EXCEPT !.ActivatedAt = t]
    ELSE instance

----------------------------------------------------------------------------
(* alert: the notification built for an instance *)

\* ac.externalURL
externalURL == "http://localhost:9799"

Put(m, k, v) == [x \in DOMAIN m \cup {k} |-> IF x = k THEN v ELSE m[x]]

\* the loop over instance.OverrideLabels
RECURSIVE applyOverrides(_, _)
applyOverrides(labels, overrides) ==
    IF overrides = << >> THEN labels
    ELSE LET label == SplitEq(Head(overrides))
         IN  applyOverrides(IF Len(label) < 2 THEN labels
                            ELSE Put(labels, label[1], label[2]),
                            Tail(overrides))

alertLabels_KeepAll(instance) ==
    applyOverrides(Put(GetLabels(instance.LastAlert), "alertname", instance.AlertName),
                   instance.OverrideLabels)

\* alert.Labels
alertLabels(instance) ==
    LET all == GetLabels(instance.LastAlert)
        kept == [k \in DOMAIN all \ {"severity", "alertname"} |-> all[k]]
    IN  applyOverrides(Put(kept, "alertname", instance.AlertName), instance.OverrideLabels)

alertAnnotations_AnyPrefixed(instance) ==
    LET all == GetAnnotations(instance.LastAlert)
        from == {k \in DOMAIN all : CutPrefix(k).has}
    IN  [x \in {CutPrefix(k).rest : k \in from} |->
            all[CHOOSE k \in from : CutPrefix(k).rest = x]]

\* alert.Annotations
alertAnnotations(instance) ==
    LET all == GetAnnotations(instance.LastAlert)
        from == {k \in DOMAIN all : CutPrefix(k).has /\ CutPrefix(k).rest # ""}
    IN  [x \in {CutPrefix(k).rest : k \in from} |->
            all[CHOOSE k \in from : CutPrefix(k).rest = x]]

groupLabels_FromHeartbeat(instance) ==
    LET ids == splitAnnotation(GetAnnotationDefault(instance.LastAlert, "msd_identifiers",
                                                    defaultIdentifiers))
        named == {ids[i] : i \in 1..Len(ids)}
    IN  [id \in {x \in named : GetLabel(instance.LastAlert, x).ok} |->
            GetLabel(instance.LastAlert, id).value]

\* groupLabels: the outbound alert has no Parent, its GetLabel reads
\* alert.Labels alone.
groupLabels(instance) ==
    LET ids == splitAnnotation(GetAnnotationDefault(instance.LastAlert, "msd_identifiers",
                                                    defaultIdentifiers))
        named == {ids[i] : i \in 1..Len(ids)}
        alert == [NewAlert EXCEPT !.Labels = alertLabels(instance)]
    IN  [id \in {x \in named : GetLabel(alert, x).ok} |-> GetLabel(alert, id).value]

notification_ResolvedFirst(instance, t) ==
    IF ~(t < instance.ResolvedAt + resolveRepeat)
    THEN [Status |-> "firing", StartsAt |-> instance.ActivateAt,
          EndsAt |-> instance.ActivateAt + expireTime, resolved |-> FALSE,
          Labels |-> alertLabels(instance), Annotations |-> alertAnnotations(instance),
          GroupLabels |-> groupLabels(instance), GeneratorURL |-> externalURL]
    ELSE [Status |-> "resolved", StartsAt |-> instance.ActivatedAt,
          EndsAt |-> instance.ResolvedAt, resolved |-> TRUE,
          Labels |-> alertLabels(instance), Annotations |-> alertAnnotations(instance),
          GroupLabels |-> groupLabels(instance), GeneratorURL |-> externalURL]

notification_ResolvedSwapped(instance, t) ==
    IF t > instance.ActivateAt
    THEN [Status |-> "firing", StartsAt |-> instance.ActivateAt,
          EndsAt |-> instance.ActivateAt + expireTime, resolved |-> FALSE,
          Labels |-> alertLabels(instance), Annotations |-> alertAnnotations(instance),
          GroupLabels |-> groupLabels(instance), GeneratorURL |-> externalURL]
    ELSE [Status |-> "resolved", StartsAt |-> instance.ResolvedAt,
          EndsAt |-> instance.ActivatedAt, resolved |-> TRUE,
          Labels |-> alertLabels(instance), Annotations |-> alertAnnotations(instance),
          GroupLabels |-> groupLabels(instance), GeneratorURL |-> externalURL]

\* The alert and the group labels handed to sendAlerts at a tick of time t.
notification(instance, t) ==
    IF t > instance.ActivateAt
    THEN [Status |-> "firing", StartsAt |-> instance.ActivateAt,
          EndsAt |-> instance.ActivateAt + expireTime, resolved |-> FALSE,
          Labels |-> alertLabels(instance), Annotations |-> alertAnnotations(instance),
          GroupLabels |-> groupLabels(instance), GeneratorURL |-> externalURL]
    ELSE [Status |-> "resolved", StartsAt |-> instance.ActivatedAt,
          EndsAt |-> instance.ResolvedAt, resolved |-> TRUE,
          Labels |-> alertLabels(instance), Annotations |-> alertAnnotations(instance),
          GroupLabels |-> groupLabels(instance), GeneratorURL |-> externalURL]

----------------------------------------------------------------------------
(* sendAlerts *)

\* The kind of service of a parsed destination URL.
deliverType(u) == IF Len(u.Scheme) >= 2 THEN u.Scheme[1] ELSE "am"

\* u.Scheme after the kind is taken off
sendScheme(u) == IF Len(u.Scheme) >= 2 THEN Tail(u.Scheme) ELSE u.Scheme

\* An HTTP round trip: the transport refuses a scheme it does not know and a
\* request whose context is done is not sent; otherwise the request reaches
\* the destination, which answers "ok" (it accepts) or "fail".
roundTrip(u, ctxDone, answer) ==
    IF sendScheme(u) \notin TransportSchemes \/ ctxDone
    THEN [reached |-> FALSE, result |-> "fail"]
    ELSE [reached |-> TRUE, result |-> answer]

\* the Slack rate limit: the send is skipped
slackSkipped_SendInterval(t, lastSent) == ~(t > lastSent + sendInterval)

slackSkipped(t, lastSent) == ~(t > lastSent + slackSendInterval)

sendOne_UnknownAsAm(alertURL, lastSent, t, ctxDone, answer) ==
    LET u == urlParse(alertURL)
        kind == deliverType(u)
        call(rt, e) == [url |-> alertURL, kind |-> kind, at |-> t, call |-> TRUE,
                        reached |-> rt.reached, result |-> rt.result,
                        err |-> IF rt.result = "fail" THEN e ELSE ""]
        none(e) == [url |-> alertURL, kind |-> kind, at |-> t, call |-> FALSE,
                    reached |-> FALSE, result |-> "none", err |-> e]
    IN  IF u.err THEN [none("") EXCEPT !.kind = "unparsed"]
        ELSE CASE kind = "webhook" -> call(roundTrip(u, FALSE, answer), "webhook: send failed")
               [] kind = "slack" ->
                    IF slackSkipped(t, lastSent) THEN none("")
                    ELSE call(roundTrip(u, FALSE, answer), "slack: send failed")
               [] OTHER -> call(roundTrip(u, ctxDone, answer), "am: send failed")

\* What sendAlerts does for the destination alertURL: whether a transport is
\* called (client.SendAlerts, sendWebhook, sendSlack), whether the request
\* reaches the destination, the result, and the error assigned to lastErr
\* ("" for none).
\*   t        ac.now() when the destination is reached in the list
\*   ctxDone  the deadline of the context of checkMonitored has passed by then
\*   answer   the answer of the destination, were it asked
sendOne(alertURL, lastSent, t, ctxDone, answer) ==
    LET u == urlParse(alertURL)
        kind == deliverType(u)
        call(rt, e) == [url |-> alertURL, kind |-> kind, at |-> t, call |-> TRUE,
                        reached |-> rt.reached, result |-> rt.result,
                        err |-> IF rt.result = "fail" THEN e ELSE ""]
        none(e) == [url |-> alertURL, kind |-> kind, at |-> t, call |-> FALSE,
                    reached |-> FALSE, result |-> "none", err |-> e]
    IN  IF u.err THEN [none("") EXCEPT !.kind = "unparsed"]
        ELSE CASE kind = "am" -> call(roundTrip(u, ctxDone, answer), "am: send failed")
               [] kind = "webhook" -> call(roundTrip(u, FALSE, answer), "webhook: send failed")
               [] kind = "slack" ->
                    IF slackSkipped(t, lastSent) THEN none("")
                    ELSE call(roundTrip(u, FALSE, answer), "slack: send failed")
               [] OTHER -> none("Unknown alert delivery type")

RECURSIVE sendEach_StopAtFirstError(_, _, _, _, _)
sendEach_StopAtFirstError(alertmanagers, lastSent, times, deadline, answers) ==
    IF alertmanagers = << >> THEN << >>
    ELSE LET first == sendOne(Head(alertmanagers), lastSent, Head(times),
                              Head(times) >= deadline, Head(answers))
         IN  IF first.err # ""
             THEN <<first>> \o [i \in 1..(Len(alertmanagers) - 1) |->
                        [url |-> alertmanagers[i + 1],
                         kind |-> deliverType(urlParse(alertmanagers[i + 1])),
                         at |-> times[i + 1], call |-> FALSE, reached |-> FALSE,
                         result |-> "none", err |-> ""]]
             ELSE <<first>> \o sendEach_StopAtFirstError(Tail(alertmanagers), lastSent,
                                    Tail(times), deadline, Tail(answers))

\* The destinations in list order; times[i] is the clock when the i-th is
\* reached, deadline that of the context.
RECURSIVE sendEach(_, _, _, _, _)
sendEach(alertmanagers, lastSent, times, deadline, answers) ==
    IF alertmanagers = << >> THEN << >>
    ELSE <<sendOne(Head(alertmanagers), lastSent, Head(times),
                   Head(times) >= deadline, Head(answers))>>
            \o sendEach(Tail(alertmanagers), lastSent, Tail(times), deadline, Tail(answers))

lastErr_First(sends) ==
    LET failed == {i \in 1..Len(sends) : sends[i].err # ""}
    IN  IF failed = {} THEN ""
        ELSE sends[CHOOSE i \in failed : \A j \in failed : i <= j].err

\* lastErr: the error of the last destination that set one
RECURSIVE lastErr(_)
lastErr(sends) ==
    IF sends = << >> THEN ""
    ELSE IF sends[Len(sends)].err # "" THEN sends[Len(sends)].err
    ELSE lastErr(SubSeq(sends, 1, Len(sends) - 1))

sendAlerts(alertmanagers, lastSent, times, deadline, answers) ==
    LET sends == sendEach(alertmanagers, lastSent, times, deadline, answers)
    IN  [sends |-> sends, err |-> lastErr(sends)]

\* The destinations of the list whose round trip can last dur when the
\* destination is reached at time t: a request that is sent, for kind am no
\* longer than the deadline of the call.
slowAt(alertmanagers, lastSent, t, dur) ==
    {i \in 1..Len(alertmanagers) :
        LET send == sendOne(alertmanagers[i], lastSent, t, FALSE, "ok")
        IN  send.reached /\ (send.kind = "am" => dur <= amTimeout)}

recorded_StampsActivatedAt(instance, err, tickNow) ==
    IF err # "" THEN [instance EXCEPT !.LastError = err, !.ActivatedAt = tickNow]
    ELSE [instance EXCEPT !.LastSent = tickNow, !.ActivatedAt = tickNow]

recorded_KeepLastSent(instance, err, tickNow) ==
    IF err # "" THEN [instance EXCEPT !.LastError = err]
    ELSE instance

recorded_ClearsError(instance, err, tickNow) ==
    IF err # "" THEN [instance EXCEPT !.LastError = err]
    ELSE [instance EXCEPT !.LastSent = tickNow, !.LastError = ""]

recorded_AdvanceOnError(instance, err, tickNow) ==
    IF err # "" THEN [instance EXCEPT !.LastError = err, !.LastSent = tickNow]
    ELSE [instance EXCEPT !.LastSent = tickNow]

\* The instance after alert has recorded the result of sendAlerts.
recorded(instance, err, tickNow) ==
    IF err # "" THEN [instance EXCEPT !.LastError = err]
    ELSE [instance EXCEPT !.LastSent = tickNow]

----------------------------------------------------------------------------
(* The HTTP surface: /alert, /-/healthy, /modify *)

NoKey == << >>

\* An HTTP response: the request it answers, the alerts the handler was
\* invoked on, the status code and the body.
Response(path, method, key, handled, code, body) ==
    [path |-> path, method |-> method, key |-> key, handled |-> handled,
     code |-> code, body |-> body]

NoReply == Response("", "", NoKey, << >>, 0, "")

\* ac's lock is free.
NoLock == [holder |-> "", method |-> "", key |-> NoKey]

handleEach_StopAtError(batch, errs) ==
    LET failing == {i \in 1..Len(batch) : errs[i] # ""}
        last == IF failing = {} THEN Len(batch)
                ELSE CHOOSE i \in failing : \A j \in failing : i <= j
    IN  [handled |-> SubSeq(batch, 1, last),
         err |-> IF failing = {} THEN "" ELSE errs[last]]

\* AlertHook.ServeHTTP, the loop over m.Alerts: errs[i] is what the handler
\* returns for the i-th alert, "" for nil.  The alerts the handler is invoked
\* on, in order, and err after the loop.
RECURSIVE handleEach(_, _)
handleEach(batch, errs) ==
    IF batch = << >> THEN [handled |-> << >>, err |-> ""]
    ELSE LET rest == handleEach(Tail(batch), Tail(errs))
         IN  [handled |-> <<Head(batch)>> \o rest.handled,
              err |-> IF Head(errs) # "" THEN Head(errs) ELSE rest.err]

\* AlertHook.ServeHTTP: the type label of the error counter the request
\* increments, "" when it increments none.
errorType(method, decodeErr, batch, errs) ==
    IF method \in {"HEAD", "OPTIONS"} THEN ""
    ELSE IF method # "POST" THEN "wrong_method"
    ELSE IF decodeErr # "" THEN "decode"
    ELSE IF handleEach(batch, errs).err # "" THEN "handle"
    ELSE ""

\* errorsMetric.With(prometheus.Labels{"type": type}).Add(1); With creates the
\* counter of a label value that has none yet.
counted(metric, type) ==
    IF type = "" THEN metric
    ELSE IF type \in DOMAIN metric THEN [metric EXCEPT ![type] = @ + 1]
    ELSE metric @@ (type :> 1)

\* AlertHook.ServeHTTP: decodeErr is the error of decoding the body, "" when
\* it decodes to batch.
ServeHTTP(method, decodeErr, batch, errs) ==
    IF method \in {"HEAD", "OPTIONS"}
    THEN Response("/alert", method, NoKey, << >>, StatusOK, "")
    ELSE IF method # "POST"
    THEN Response("/alert", method, NoKey, << >>, StatusBadRequest,
                  "Expected alert to be POSTed")
    ELSE IF decodeErr # ""
    THEN Response("/alert", method, NoKey, << >>, StatusBadRequest, decodeErr)
    ELSE LET r == handleEach(batch, errs)
         IN  IF r.err # ""
             THEN Response("/alert", method, NoKey, r.handled,
                           StatusInternalServerError, r.err)
             ELSE Response("/alert", method, NoKey, r.handled, StatusOK, "")

healthy_Unavailable(ok) ==
    Response("/-/healthy", "GET", NoKey, << >>, StatusServiceUnavailable, "unhealthy")

\* registerHandlers, /-/healthy: ok is what handler.Healthy() returned.
healthy(ok) ==
    IF ~ok
    THEN Response("/-/healthy", "GET", NoKey, << >>, StatusServiceUnavailable, "unhealthy")
    ELSE Response("/-/healthy", "GET", NoKey, << >>, StatusOK, "ok")

modified_AnyMethod(reg, method, key) ==
    [k \in DOMAIN reg \ {key} |-> reg[k]]

\* modify: the registry after the request.
modified(reg, method, key) ==
    IF key \in DOMAIN reg /\ method = "DELETE"
    THEN [k \in DOMAIN reg \ {key} |-> reg[k]]
    ELSE reg

\* modify: the response.
modifyReply(reg, method, key) ==
    IF key \notin DOMAIN reg
    THEN Response("/modify", method, key, << >>, StatusBadRequest, "Key does not exist")
    ELSE IF method # "DELETE"
    THEN Response("/modify", method, key, << >>, StatusBadRequest,
                  "Only DELETE currently supported")
    ELSE Response("/modify", method, key, << >>, StatusOK, "ok")

\* status: the response.  The template is executed over the registry as it
\* is while the page is written; of the page only the status code is kept.
statusReply(reg) == Response("/", "GET", NoKey, << >>, StatusOK, "")

----------------------------------------------------------------------------
(* The heartbeats the upstream sends *)

Parent == <<Message("prommsd", "http://am1", EmptyMap, EmptyMap, EmptyMap)>>

Heartbeat(job, annotations) ==
    [NewAlert EXCEPT !.Labels = ("job" :> job), !.Annotations = annotations,
                     !.Parent = Parent]

Dests(line) == "msd_alertmanagers" :> <<line>>

Ids(line) == "msd_identifiers" :> <<line>>

Activation(word) == "msd_activation" :> <<<<word>>>>

W5 == Activation("5s")

\* A batch with group labels, common labels and common annotations.
Batch ==
    <<Message("prommsd", "http://am1",
              "cluster" :> "a" @@ "namespace" :> "b" @@ "severity" :> "a" @@ "job" :> "c",
              "namespace" :> "a" @@ "job" :> "b",
              W5 @@ "msda_test" :> "common" @@ "msda_other" :> "other"
                 @@ "msda_" :> "empty")>>

\* A heartbeat of that batch.
Beat(labels, annotations) ==
    [NewAlert EXCEPT !.Labels = labels, !.Annotations = annotations, !.Parent = Batch]

Overrides(line) == "msd_override_labels" :> <<line>>

W60 == Activation("60s")

W30m == Activation("30m")

Scenarios ==
    {"basic", "mixed", "resolve", "stall", "expiry", "slack", "ids", "unknown",
     "health", "modify", "hook", "labels", "refire", "concurrent",
     "slackonly", "status", "unparsed", "nowhere", "stale"}

Heartbeats(sc) ==
    CASE sc = "basic" ->
            {Heartbeat("a", Dests(<<"http://am1">>))}
      [] sc = "mixed" ->
            {Heartbeat("a", W5 @@ Dests(<<"http://am1", SP, "webhook+http://handler">>)),
             Heartbeat("a", W5 @@ Dests(<<"pigeon+http://dest", SP, "http://am1">>))}
      [] sc = "resolve" ->
            {Heartbeat("a", W5 @@ Dests(<<"http://am1">>)),
             Heartbeat("a", W30m @@ Dests(<<"http://am1">>))}
      [] sc = "stall" ->
            {Heartbeat("a", W5 @@ Dests(<<"http://am1">>)),
             Heartbeat("a", W30m @@ Dests(<<"http://am1">>)),
             Heartbeat("b", W5 @@ Dests(<<"webhook+http://handler">>))}
      [] sc = "expiry" ->
            {Heartbeat("a", W5 @@ Dests(<<"webhook+http://handler">>))}
      [] sc = "slack" ->
            {Heartbeat("a", W5 @@ Dests(<<"http://am1", SP, "slack+http://hook">>))}
      [] sc = "ids" ->
            {Heartbeat("a", Ids(<<"job", SP, "namespace">>)),
             Heartbeat("a", W60 @@ Ids(<<"namespace", SP, "job">>)),
             Heartbeat("a", Ids(<<"job", SP, "job", SP, "namespace">>)),
             [Heartbeat("a", Ids(<<"job", SP, "namespace">>)) EXCEPT !.Status = "resolved"]}
      [] sc = "unknown" ->
            {Heartbeat("a", W5 @@ Dests(<<"pigeon+http://dest">>)),
             Heartbeat("b", W5 @@ Dests(<<"carrier-pigeon://dest">>))}
      [] sc = "labels" ->
            {Beat("job" :> "a" @@ "severity" :> "b" @@ "alertname" :> "a",
                  "msda_test" :> "own"),
             Beat("job" :> "a" @@ "severity" :> "b",
                  Overrides(<<"alertname=b">>)),
             Beat("job" :> "a",
                  Overrides(<<"severity=a", SP, "severity=b">>)
                    @@ Ids(<<"job", SP, "severity">>)),
             Beat("job" :> "a" @@ "severity" :> "b",
                  Overrides(<<"job=b", SP, "junk", SP, "a=b=c">>)
                    @@ Ids(<<"severity", SP, "job">>)),
             Beat("job" :> "a",
                  "msda_msda_test" :> "twice" @@ "msd_alertname" :> "Custom"
                    @@ Ids(<<"alertname", SP, "job">>))}
      [] sc = "refire" ->
            {Heartbeat("a", W5 @@ Dests(<<"http://am1">>))}
      [] sc = "health" ->
            {Heartbeat("a", W5 @@ Dests(<<"webhook+http://handler">>))}
      [] sc = "modify" ->
            {Heartbeat("a", W5 @@ Dests(<<"webhook+http://handler">>)),
             Heartbeat("b", Dests(<<"http://am1">>))}
      [] sc = "concurrent" ->
            {Heartbeat("a", W5 @@ Dests(<<"webhook+http://handler">>))}
      [] sc = "slackonly" ->
            {Heartbeat("a", W5 @@ Dests(<<"slack+http://hook">>)),
             Heartbeat("a", W30m @@ Dests(<<"slack+http://hook">>))}
      [] sc = "status" ->
            {Heartbeat("a", W5 @@ Dests(<<"http://am1">>))}
      [] sc = "unparsed" ->
            {Heartbeat("a", Activation("soon") @@ Dests(<<"http://am1">>))}
      [] sc = "nowhere" ->
            {Heartbeat("a", W5 @@ Dests(<< >>)),
             Heartbeat("b", W5 @@ Dests(<<"://bad">>))}
      [] sc = "stale" ->
            {Heartbeat("a", W60 @@ Dests(<<"http://am1">>))}
      [] OTHER -> {}

\* The handler the AlertHook is constructed with: the AlertChecker, or a
\* handler that does nothing but return an error or nil.
Handler(sc) == IF sc = "hook" THEN "mock" ELSE "checker"

\* The decoded bodies that are POSTed to a hook with such a handler.
Batches ==
    LET foo(v) == [NewAlert EXCEPT !.Labels = ("foo" :> v)]
    IN  {<< >>, <<foo("bar")>>, <<foo("bar"), foo("bar2")>>, <<foo("bar2"), foo("bar")>>}

\* MockHandler.HandleAlert: what the handler returns for the alerts of a
\* batch, "" for nil.
HandlerErrors == [1..2 -> {"", "test error", "test error2"}]

Methods(sc) ==
    CASE sc = "hook" -> {"POST", "GET", "HEAD"}
      [] sc = "modify" -> {"DELETE", "GET"}
      [] sc = "stall" -> {}
      [] OTHER -> {"DELETE"}

\* How many requests to /alert the upstreams have under way at a time, each
\* in a handler of its own.
Handlers(sc) == IF sc = "concurrent" THEN MaxPending + 1 ELSE MaxPending

\* A health monitor probes /-/healthy.
Monitor(sc) == sc = "health"

\* Somebody looks at the status page.
Viewer(sc) == sc = "status"

\* The amounts of time, in whole tick periods, by which the clock is seen to
\* move.
Steps(sc) ==
    CASE sc = "basic" -> {tickPeriod, defaultActivation}
      [] sc = "resolve" -> {2 * tickPeriod, sendInterval + tickPeriod}
      [] sc = "stall" -> {2 * tickPeriod, resolveRepeat}
      [] sc = "expiry" -> {tickPeriod, 2 * tickPeriod, expireTime - tickPeriod}
      [] sc = "ids" -> {tickPeriod, sendInterval}
      [] sc = "health" -> {2 * tickPeriod, resolveRepeat}
      [] sc = "modify" -> {2 * tickPeriod}
      [] sc = "hook" -> {tickPeriod}
      [] sc = "labels" -> {2 * tickPeriod}
      [] sc = "refire" -> {2 * tickPeriod, sendInterval - tickPeriod}
      [] sc = "concurrent" -> {2 * tickPeriod}
      [] sc = "slackonly" -> {2 * tickPeriod, sendInterval + tickPeriod}
      [] sc = "slack" -> {2 * tickPeriod, sendInterval + tickPeriod}
      [] sc = "status" -> {2 * tickPeriod}
      [] sc = "unparsed" -> {tickPeriod, defaultActivation}
      [] sc = "nowhere" -> {2 * tickPeriod, sendInterval}
      [] sc = "stale" -> {2 * tickPeriod, sendInterval + tickPeriod}
      [] OTHER -> {tickPeriod, 2 * tickPeriod, sendInterval}

\* How many clock steps, heartbeats and deletions a scenario runs for: the one
\* with two entries and a stalled delivery needs one more than the others.
Budget(sc) ==
    CASE sc = "stall" -> MaxEvents
      [] sc = "stale" -> MaxEvents
      [] sc = "health" -> MaxEvents - 1
      [] sc = "refire" -> MaxEvents - 1
      [] sc = "concurrent" -> MaxEvents - 1
      [] sc = "labels" -> MaxEvents - 3
      [] OTHER -> MaxEvents - 2

----------------------------------------------------------------------------
(* The state machine *)

\* What is remembered of an entry besides its fields:
\*   any, at, ok, slack  its most recent finished delivery: the time of its
\*                       tick, whether it returned no error, whether it made
\*                       a Slack call
\*   am                  in that delivery every destination of kind am accepted
\*                       the notification
\*   firedAt             the time of the tick of its most recent delivery with
\*                       status firing that returned no error
\*   seen                a tick has found the entry active since its last ingest
\*   fresh               the last ingest found last_sent after activate_at, and
\*                       no tick since has found the entry active or due
NoSent == [any |-> FALSE, at |-> ZeroTime, ok |-> FALSE, slack |-> FALSE, am |-> FALSE,
           firedAt |-> ZeroTime, seen |-> FALSE, fresh |-> FALSE]

Empty == [k \in {} |-> NoSent]

Restrict(f, S) == [k \in S |-> f[k]]

\* No checkMonitored is running.
NoTick == [now |-> ZeroTime, due |-> {}, skipped |-> {}, missed |-> {}, removed |-> {}]

Init ==
    /\ now = StartTime
    /\ ticked = TRUE
    /\ events = 0
    /\ monitored = Empty
    /\ handleChan = {}
    /\ healthChan = 0
    /\ mu = NoLock
    /\ reply = NoReply
    /\ pc = "select"
    /\ toAlert = Empty
    /\ tick = NoTick
    /\ hist = Empty
    /\ instanceMetric = 0
    /\ errorsMetric = [type \in {"wrong_method", "decode", "handler"} |-> 0]
    /\ scenario \in Scenarios

\* What checkMonitored at time t decides for the entry of key k.
Decision(k, t) ==
    LET instance == monitored[k]
    IN  [due |-> alerting(instance, t),
         removed |-> expires(instance, t),
         instance |-> checked(instance, t),
         skipped |-> t > instance.ActivateAt /\ ~hist[k].seen /\ ~alerting(instance, t),
         missed |-> /\ hist[k].fresh /\ ~(t > instance.ActivateAt)
                    /\ t > instance.LastSent + sendInterval /\ ~alerting(instance, t),
         hist |-> [hist[k] EXCEPT
                    !.seen = @ \/ t > instance.ActivateAt,
                    !.fresh = @ /\ ~(t > instance.ActivateAt)
                                /\ ~(t > instance.LastSent + sendInterval)]]

\* A tick at time t would change nothing.
Idle(t) ==
    \A k \in DOMAIN monitored :
        LET d == Decision(k, t)
        IN  ~d.due /\ ~d.removed /\ d.instance = monitored[k] /\ d.hist = hist[k]

\* The ticker fires every tickPeriod.  The clock moves by d without a
\* checkMonitored in between only if the ticks in between change nothing; what
\* they decide can change only at the first tick and at the ticks that follow
\* a threshold of an entry.
Quiet(d) ==
    LET thresholds == UNION {{monitored[k].ActivateAt,
                              monitored[k].ActivateAt + expireTime,
                              monitored[k].LastSent + sendInterval,
                              monitored[k].ResolvedAt + resolveRepeat - tickPeriod}
                                : k \in DOMAIN monitored}
        ticks == {t + tickPeriod : t \in thresholds \cup {now}}
    IN  \A t \in ticks : (now < t /\ t < now + d) => Idle(t)

\* Time passes.  With the checker in its select, the pending tick has been
\* served, no handler is blocked on the channel and the ticks skipped change
\* nothing.  With the checker in wg.Wait, a worker is still in a round trip
\* that can last that long.
Advance(d) ==
    /\ events < Budget(scenario)
    /\ mu = NoLock
    /\ IF pc = "select"
       THEN ticked /\ handleChan = {} /\ healthChan = 0 /\ Quiet(d)
       ELSE \E k \in DOMAIN toAlert :
                /\ toAlert[k].state = "run"
                /\ slowAt(toAlert[k].instance.AlertManagers, toAlert[k].instance.LastSent,
                          toAlert[k].now, now + d - toAlert[k].now) # {}
    /\ now' = now + d
    /\ ticked' = FALSE
    /\ events' = events + 1
    /\ UNCHANGED <<monitored, handleChan, healthChan, mu, pc, toAlert, tick, hist, reply,
                   scenario, instanceMetric, errorsMetric>>

\* In the scenario with a stalled delivery an upstream registers with its
\* short window and, once registered, sends with a long one.
Upstream(alert) ==
    scenario = "stall" =>
        IF activationDuration(alert) < sendInterval
        THEN /\ alertKey(alert) \notin DOMAIN monitored
             /\ \A handle \in handleChan : handle.key # alertKey(alert)
        ELSE alertKey(alert) \in DOMAIN monitored

HandleAlert_Buffered(alert) ==
    /\ events < Budget(scenario)
    /\ Upstream(alert)
    /\ events' = events + 1
    /\ reply' = ServeHTTP("POST", "", <<alert>>, <<"">>)
    /\ IF dropped(alert)
       THEN UNCHANGED handleChan
       ELSE /\ Cardinality(handleChan) < Handlers(scenario)
            /\ handleChan' =
                    {[handle EXCEPT !.alone = @ /\ handle.key # alertKey(alert)]
                        : handle \in handleChan}
                    \cup {[key |-> alertKey(alert), instance |-> newInstance(alert, now),
                           alone |-> \A handle \in handleChan :
                                        handle.key # alertKey(alert)]}
    /\ UNCHANGED <<now, ticked, monitored, healthChan, mu, pc, toAlert, tick, hist, scenario,
                   instanceMetric, errorsMetric>>

\* HandleAlert of the one alert of a POST to /alert: up to the send on
\* ac.handleChan, on which it blocks until the checker receives, or to its
\* return when the alert is dropped.
HandleAlert(alert) ==
    /\ events < Budget(scenario)
    /\ Upstream(alert)
    /\ events' = events + 1
    /\ IF dropped(alert)
       THEN /\ reply' = ServeHTTP("POST", "", <<alert>>, <<"">>)
            /\ errorsMetric' = counted(errorsMetric, errorType("POST", "", <<alert>>, <<"">>))
            /\ UNCHANGED handleChan
       ELSE /\ Cardinality(handleChan) < Handlers(scenario)
            /\ handleChan' =
                    {[handle EXCEPT !.alone = @ /\ handle.key # alertKey(alert)]
                        : handle \in handleChan}
                    \cup {[key |-> alertKey(alert), instance |-> newInstance(alert, now),
                           alone |-> \A handle \in handleChan :
                                        handle.key # alertKey(alert)]}
            /\ UNCHANGED <<reply, errorsMetric>>
    /\ UNCHANGED <<now, ticked, monitored, healthChan, mu, pc, toAlert, tick, hist, scenario,
                   instanceMetric>>

\* checker: case handle := <-ac.handleChan, and the return of the HandleAlert
\* that was blocked on the send.
Receive(handle) ==
    /\ pc = "select"
    /\ mu = NoLock
    /\ handleChan' = handleChan \ {handle}
    /\ monitored' = updateInstance(monitored, handle.key, handle.instance, now)
    /\ hist' = [k \in DOMAIN monitored' |->
                    IF k # handle.key THEN hist[k]
                    ELSE IF k \notin DOMAIN monitored THEN NoSent
                    ELSE [hist[k] EXCEPT !.seen = FALSE,
                            !.fresh = monitored[k].LastSent > monitored[k].ActivateAt]]
    /\ instanceMetric' = Cardinality(DOMAIN monitored')
    /\ reply' = ServeHTTP("POST", "", <<handle.instance.LastAlert>>, <<"">>)
    /\ errorsMetric' = counted(errorsMetric,
                                errorType("POST", "", <<handle.instance.LastAlert>>, <<"">>))
    /\ UNCHANGED <<now, ticked, events, healthChan, mu, pc, toAlert, tick, scenario>>

\* checker: case <-tick, checkMonitored up to wg.Wait
Tick ==
    /\ pc = "select"
    /\ mu = NoLock
    /\ ~ticked
    /\ ticked' = TRUE
    /\ LET kept == {k \in DOMAIN monitored : ~Decision(k, now).removed}
           due  == {k \in DOMAIN monitored : Decision(k, now).due}
       IN  /\ monitored' = [k \in kept |-> Decision(k, now).instance]
           /\ toAlert' = [k \in due |->
                            [now |-> now, instance |-> Decision(k, now).instance,
                             prev |-> hist[k], state |-> "run", at |-> ZeroTime,
                             alert |-> notification(Decision(k, now).instance, now),
                             sends |-> << >>, err |-> ""]]
           /\ tick' = [now |-> now,
                       due |-> due,
                       skipped |-> {k \in DOMAIN monitored : Decision(k, now).skipped},
                       missed |-> {k \in DOMAIN monitored : Decision(k, now).missed},
                       removed |-> DOMAIN monitored \ kept]
           /\ hist' = [k \in kept |-> Decision(k, now).hist]
           /\ instanceMetric' = IF kept # DOMAIN monitored THEN Cardinality(kept)
                                 ELSE instanceMetric
    /\ pc' = "wait"
    /\ UNCHANGED <<now, events, handleChan, healthChan, mu, reply, scenario, errorsMetric>>

\* One delivery worker: go ac.alert(&wg, ctx, now, instance), from its start at
\* the tick to its return.  Either no round trip takes time and the worker
\* returned at the time of the tick, or the time since the tick has gone into
\* the round trip of one destination, slow, and the destinations after it are
\* reached now.
Alert(k) ==
    /\ pc = "wait"
    /\ toAlert[k].state = "run"
    /\ LET w == toAlert[k]
           instance == w.instance
           n == Len(instance.AlertManagers)
           slowOnes == IF now > w.now
                       THEN slowAt(instance.AlertManagers, instance.LastSent, w.now,
                                   now - w.now)
                       ELSE {}
       IN  \E answers \in [1..n -> {"ok", "fail"}], slow \in {0} \cup slowOnes :
            LET times == [i \in 1..n |-> IF slow # 0 /\ i > slow THEN now ELSE w.now]
                r == sendAlerts(instance.AlertManagers, instance.LastSent, times,
                                w.now + fanoutTimeout, answers)
            IN  /\ toAlert' = [toAlert EXCEPT ![k] =
                        [w EXCEPT !.state = "done",
                                  !.at = IF slow = 0 THEN w.now ELSE now,
                                  !.sends = r.sends, !.err = r.err]]
                /\ IF k \in DOMAIN monitored
                   THEN /\ monitored' = [monitored EXCEPT ![k] = recorded(@, r.err, w.now)]
                        /\ hist' = [hist EXCEPT ![k] =
                                [@ EXCEPT !.any = TRUE, !.at = w.now, !.ok = (r.err = ""),
                                    !.slack = \E i \in 1..Len(r.sends) :
                                        r.sends[i].kind = "slack" /\ r.sends[i].call,
                                    !.am = \A i \in 1..Len(r.sends) :
                                        r.sends[i].kind = "am" => r.sends[i].result = "ok",
                                    !.firedAt = IF w.alert.Status = "firing" /\ r.err = ""
                                                THEN w.now ELSE @]]
                   ELSE UNCHANGED <<monitored, hist>>
    /\ UNCHANGED <<now, ticked, events, handleChan, healthChan, mu, pc, tick, reply,
                   scenario, instanceMetric, errorsMetric>>

\* wg.Wait returns and checkMonitored with it.
Wait ==
    /\ pc = "wait"
    /\ \A k \in DOMAIN toAlert : toAlert[k].state = "done"
    /\ pc' = "select"
    /\ toAlert' = Empty
    /\ tick' = NoTick
    /\ UNCHANGED <<now, ticked, events, monitored, handleChan, healthChan, mu, hist, reply,
                   scenario, instanceMetric, errorsMetric>>

\* A POST, GET or HEAD to /alert of a hook whose handler returns errs.
Post(method, decodeErr, batch, errs) ==
    /\ Handler(scenario) = "mock"
    /\ events < Budget(scenario)
    /\ events' = events + 1
    /\ reply' = ServeHTTP(method, decodeErr, batch, errs)
    /\ errorsMetric' = counted(errorsMetric, errorType(method, decodeErr, batch, errs))
    /\ UNCHANGED <<now, ticked, monitored, handleChan, healthChan, mu, pc, toAlert, tick,
                   hist, scenario, instanceMetric>>

\* Healthy: the send on ac.healthChan, on which it blocks.
Probe ==
    /\ Monitor(scenario)
    /\ events < Budget(scenario)
    /\ healthChan < MaxPending
    /\ events' = events + 1
    /\ healthChan' = healthChan + 1
    /\ UNCHANGED <<now, ticked, monitored, handleChan, mu, pc, toAlert, tick, hist, reply,
                   scenario, instanceMetric, errorsMetric>>

\* checker: case <-ac.healthChan, and the return of the Healthy that was
\* blocked on the send.
Health ==
    /\ pc = "select"
    /\ healthChan > 0
    /\ healthChan' = healthChan - 1
    /\ reply' = healthy(TRUE)
    /\ UNCHANGED <<now, ticked, events, monitored, handleChan, mu, pc, toAlert, tick, hist,
                   scenario, instanceMetric, errorsMetric>>

\* modify: /modify?key=..., ac.Lock()
ModifyLock(method, key) ==
    /\ events < Budget(scenario)
    /\ mu = NoLock
    /\ events' = events + 1
    /\ mu' = [holder |-> "modify", method |-> method, key |-> key]
    /\ UNCHANGED <<now, ticked, monitored, handleChan, healthChan, pc, toAlert, tick, hist,
                   reply, scenario, instanceMetric, errorsMetric>>

\* modify: from the lookup of the key to the return, which unlocks.
Modify ==
    /\ mu.holder = "modify"
    /\ monitored' = modified(monitored, mu.method, mu.key)
    /\ hist' = Restrict(hist, DOMAIN monitored')
    /\ reply' = modifyReply(monitored, mu.method, mu.key)
    /\ mu' = NoLock
    /\ UNCHANGED <<now, ticked, events, handleChan, healthChan, pc, toAlert, tick, scenario, instanceMetric, errorsMetric>>

\* status: ac.RLock()
StatusLock ==
    /\ Viewer(scenario)
    /\ events < Budget(scenario)
    /\ mu = NoLock
    /\ events' = events + 1
    /\ mu' = [holder |-> "status", method |-> "GET", key |-> NoKey]
    /\ UNCHANGED <<now, ticked, monitored, handleChan, healthChan, pc, toAlert, tick, hist,
                   reply, scenario, instanceMetric, errorsMetric>>

\* status: the template is executed over ac.monitored, and the return
\* unlocks.
Status ==
    /\ mu.holder = "status"
    /\ reply' = statusReply(monitored)
    /\ mu' = NoLock
    /\ UNCHANGED <<now, ticked, events, monitored, handleChan, healthChan, pc, toAlert, tick,
                   hist, scenario, instanceMetric, errorsMetric>>

\* The keys that requests to /modify name.
Requested ==
    IF scenario = "modify"
    THEN {alertKey(alert) : alert \in Heartbeats(scenario)} \cup {<<IdItem("job", "")>>}
    ELSE DOMAIN monitored

Next ==
    \/ \E d \in Steps(scenario) : Advance(d)
    \/ \E alert \in Heartbeats(scenario) : HandleAlert(alert)
    \/ \E handle \in handleChan : Receive(handle)
    \/ Tick
    \/ \E k \in DOMAIN toAlert : Alert(k)
    \/ Wait
    \/ \E method \in Methods(scenario), key \in Requested : ModifyLock(method, key)
    \/ Modify
    \/ StatusLock
    \/ Status
    \/ Probe
    \/ Health
    \/ Handler(scenario) = "mock" /\ \E method \in Methods(scenario), decodeErr \in {"", "unexpected EOF"},
          batch \in Batches, errs \in HandlerErrors :
            Post(method, decodeErr, batch, errs)

Spec == Init /\ [][Next]_vars

\* The steps of the checker goroutine.
Checker == Tick \/ Health \/ Wait \/ \E handle \in handleChan : Receive(handle)

\* The return of a worker none of whose round trips can last longer than the
\* deadline of a call.
BoundedAlert ==
    \E k \in DOMAIN toAlert :
        /\ \A i \in slowAt(toAlert[k].instance.AlertManagers, toAlert[k].instance.LastSent,
                            toAlert[k].now, 0) :
                deliverType(urlParse(toAlert[k].instance.AlertManagers[i])) = "am"
        /\ Alert(k)

\* The goroutines are scheduled: the checker takes a step when it can, a
\* handler holding the lock returns, a worker returns when its calls have
\* deadlines.  A destination of kind webhook or slack need never answer.
FairSpec ==
    Spec /\ WF_vars(Checker) /\ WF_vars(Modify) /\ WF_vars(Status) /\ WF_vars(BoundedAlert)

----------------------------------------------------------------------------
(* Properties *)

Workers == {toAlert[k] : k \in DOMAIN toAlert}

Done(k) == k \in DOMAIN toAlert /\ toAlert[k].state = "done"

Ticking == pc = "wait"

MustReach(w, i) ==
    /\ w.sends[i].kind \in {"am", "webhook"}
    /\ sendScheme(urlParse(w.sends[i].url)) \in TransportSchemes
    /\ w.sends[i].kind = "am" => w.sends[i].at < w.now + fanoutTimeout

\* C2 as stated: the first tick after an ingest whose now is after activate_at
\* creates a delivery for the entry.
C2_FiresAtFirstTickAfterActivateAt == tick.skipped = {}

\* C2: a tick whose now is after an entry's activate_at and after its
\* last_sent + send_interval creates a delivery for it, with a firing
\* notification, and that delivery's request reaches every am or webhook
\* destination whatever the other destinations answer; a tick that passes over
\* an entry it finds overdue for the first time does so because last_sent is at
\* most a send interval ago.
C2_FiresAtFirstDueTickAfterActivateAt ==
    /\ Ticking =>
        \A k \in DOMAIN monitored :
            /\ (tick.now > monitored[k].ActivateAt /\ k \notin DOMAIN toAlert)
                    => ~(tick.now > monitored[k].LastSent + sendInterval)
            /\ k \in tick.skipped => k \notin DOMAIN toAlert
    /\ \A w \in Workers :
        /\ w.now > w.instance.ActivateAt => w.alert.Status = "firing"
        /\ w.state = "done" /\ w.now > w.instance.ActivateAt =>
            \A i \in 1..Len(w.sends) : MustReach(w, i) => w.sends[i].reached

\* A firing delivery reached its am destination although the destination
\* listed before it failed.
C2_Witness ==
    \E w \in Workers :
        /\ w.state = "done"
        /\ w.alert.Status = "firing"
        /\ \E i, j \in 1..Len(w.sends) :
            /\ i < j
            /\ w.sends[i].err # ""
            /\ w.sends[j].kind = "am" /\ w.sends[j].reached /\ w.sends[j].result = "ok"

C4_ExpiredEntriesRemoved ==
    Ticking =>
        \A k \in DOMAIN monitored : ~(tick.now > monitored[k].ActivateAt + expireTime)

\* A tick removed an entry for which no delivery was due, its last one having
\* succeeded a tick before.
C4_Witness ==
    /\ Ticking
    /\ \E k \in tick.removed : k \notin DOMAIN toAlert /\ k \notin DOMAIN monitored

\* C5: after an ingest that found last_sent after activate_at, the first tick
\* that finds the entry not active and its last_sent more than a send interval
\* ago creates a delivery for it (with a notification of status resolved).
C5_ResolvedAtNextDueTick == tick.missed = {}

\* The identifier names of a heartbeat, as listed.
idNames(alert) ==
    splitAnnotation(GetAnnotationDefault(alert, "msd_identifiers", defaultIdentifiers))

Occurrences(seq, x) == Cardinality({i \in 1..Len(seq) : seq[i] = x})

Range(seq) == {seq[i] : i \in 1..Len(seq)}

SameValues(a, b, names) ==
    \A id \in names : GetLabelDefault(a, id, "") = GetLabelDefault(b, id, "")

\* The heartbeats list the same set of identifiers and agree on their values.
SameIdentifierSet(a, b) ==
    /\ Range(idNames(a)) = Range(idNames(b))
    /\ SameValues(a, b, Range(idNames(a)))

\* The heartbeats list the same identifiers the same number of times, in any
\* order, and agree on their values.
SameIdentifierList(a, b) ==
    /\ SameIdentifierSet(a, b)
    /\ \A id \in Range(idNames(a)) : Occurrences(idNames(a), id) = Occurrences(idNames(b), id)

\* C6 as stated: heartbeats with the same values for the same set of
\* identifier labels share one registry entry.
C6_OneEntryPerIdentifierSet ==
    \A k1, k2 \in DOMAIN monitored :
        SameIdentifierSet(monitored[k1].LastAlert, monitored[k2].LastAlert) => k1 = k2

\* C6: heartbeats with the same values for the same identifier labels, each
\* listed the same number of times in whatever order, share one registry entry.
C6_OneEntryPerIdentifierList ==
    \A k1, k2 \in DOMAIN monitored :
        SameIdentifierList(monitored[k1].LastAlert, monitored[k2].LastAlert) => k1 = k2

\* The entry created by a heartbeat listing "namespace job" has delivered, and
\* a heartbeat listing "job namespace" has replaced it under the same key.
C6_Witness ==
    /\ Cardinality(DOMAIN monitored) = 1
    /\ \E k \in DOMAIN monitored :
        /\ idNames(monitored[k].LastAlert) = <<"job", "namespace">>
        /\ monitored[k].LastSent > ZeroTime

\* C7: while an entry stays in the registry its last_sent never decreases.
C7_LastSentNeverDecreases ==
    [][\A k \in DOMAIN monitored \cap DOMAIN monitored' :
            monitored'[k].LastSent >= monitored[k].LastSent]_vars

\* An entry whose last_sent has advanced twice, with an ingest after the first.
C7_Witness ==
    \E k \in DOMAIN toAlert \cap DOMAIN monitored :
        /\ Done(k)
        /\ toAlert[k].prev.any /\ toAlert[k].prev.ok
        /\ toAlert[k].instance.ResolvedAt > ZeroTime
        /\ monitored[k].LastSent = toAlert[k].now
        /\ monitored[k].LastSent > toAlert[k].prev.at

\* The keys of the workers that have returned and whose entry is in the
\* registry.
Recorded == {k \in DOMAIN toAlert \cap DOMAIN monitored : toAlert[k].state = "done"}

Sends(w) == 1..Len(w.sends)

\* At least one destination answered with success and at least one failed.
PartialSuccess(w) ==
    /\ \E i \in Sends(w) : w.sends[i].result = "ok"
    /\ \E i \in Sends(w) : w.sends[i].err # ""

\* C8 as stated: a delivery in which one destination succeeds and another
\* fails advances the entry's last_sent to the time of the tick.
C8_PartialSuccessAdvancesLastSent ==
    \A k \in Recorded : PartialSuccess(toAlert[k]) => monitored[k].LastSent = toAlert[k].now

\* C8: a delivery in which one destination succeeds and another fails leaves
\* the entry's last_sent as it was and records the error of the last failing
\* destination in last_error; last_sent advances to the time of the tick when
\* no destination fails.
C8_PartialSuccessKeepsLastSent ==
    \A k \in Recorded :
        LET w == toAlert[k]
        IN  /\ PartialSuccess(w) =>
                /\ monitored[k].LastSent = w.instance.LastSent
                /\ monitored[k].LastSent < w.now
                /\ monitored[k].LastError = w.err
                /\ \E i \in Sends(w) : w.sends[i].err = w.err
            /\ (\A i \in Sends(w) : w.sends[i].err = "") => monitored[k].LastSent = w.now

\* The Alertmanager accepted the notification, the destination listed with it
\* failed, and last_sent has not moved.
C8_Witness ==
    \E k \in Recorded :
        /\ PartialSuccess(toAlert[k])
        /\ \E i \in Sends(toAlert[k]) :
            toAlert[k].sends[i].kind = "am" /\ toAlert[k].sends[i].result = "ok"
        /\ monitored[k].LastError # ""
        /\ monitored[k].LastSent = toAlert[k].instance.LastSent

\* The destination URL parses and names, before a "+", a kind of service that
\* is none of am, webhook and slack.
UnknownKind(alertURL) ==
    /\ ~urlParse(alertURL).err
    /\ deliverType(urlParse(alertURL)) \notin {"am", "webhook", "slack"}

OnlyUnknownKinds(instance) ==
    /\ instance.AlertManagers # << >>
    /\ \A i \in 1..Len(instance.AlertManagers) : UnknownKind(instance.AlertManagers[i])

\* C9 as stated, with its example: for an entry whose only destination is
\* carrier-pigeon://dest no outbound request is attempted.
C9_CarrierPigeonNeverSends ==
    \A w \in Workers :
        (w.state = "done" /\ w.instance.AlertManagers = <<"carrier-pigeon://dest">>)
            => \A i \in Sends(w) : ~w.sends[i].call

\* C9, the delivery: for an entry all of whose destinations are of an unknown
\* kind (a prefix such as pigeon+ before the scheme) a delivery calls no
\* transport, returns an error that is recorded in last_error and leaves
\* last_sent as it was; after it every tick that finds the entry active
\* creates a delivery again.
C9_Delivery ==
    /\ \A k \in DOMAIN toAlert :
        (Done(k) /\ OnlyUnknownKinds(toAlert[k].instance)) =>
            /\ \A i \in Sends(toAlert[k]) : ~toAlert[k].sends[i].call
            /\ toAlert[k].err # ""
            /\ k \in DOMAIN monitored =>
                /\ monitored[k].LastError = toAlert[k].err
                /\ monitored[k].LastSent = toAlert[k].instance.LastSent
    /\ Ticking =>
        \A k \in DOMAIN monitored \ DOMAIN toAlert :
            ~ /\ OnlyUnknownKinds(monitored[k])
              /\ hist[k].any /\ ~hist[k].ok
              /\ tick.now > monitored[k].ActivateAt

\* C9, the other entries: the return of such a delivery removes no entry and
\* changes no other entry.
C9_Frame ==
    \A k \in DOMAIN toAlert \cap DOMAIN toAlert' :
        (/\ toAlert[k].state = "run" /\ toAlert'[k].state = "done"
         /\ OnlyUnknownKinds(toAlert[k].instance)) =>
            /\ DOMAIN monitored' = DOMAIN monitored
            /\ \A j \in DOMAIN monitored \ {k} : monitored'[j] = monitored[j]

\* C9: the delivery and the other entries together.
C9_UnknownKindFailsAlone == []C9_Delivery /\ [][C9_Frame]_vars

\* A delivery to pigeon+http://dest has failed for the second time without a
\* call while another entry is in the registry.
C9_Witness ==
    \E k \in Recorded :
        /\ OnlyUnknownKinds(toAlert[k].instance)
        /\ toAlert[k].prev.any /\ ~toAlert[k].prev.ok
        /\ toAlert[k].now > toAlert[k].prev.at
        /\ monitored[k].LastError # ""
        /\ DOMAIN monitored # {k}

SlackSends(w) == {i \in Sends(w) : w.sends[i].kind = "slack"}

\* C10 as stated, the second delivery: when the previous delivery of the entry
\* made a Slack call and this one comes from a tick within slack_send_interval
\* of that one's, this one makes no Slack call.
C10_SecondSlackDeliverySilent ==
    \A w \in Workers :
        (/\ w.state = "done" /\ w.prev.any /\ w.prev.slack
         /\ w.now - w.prev.at <= slackSendInterval)
            => \A i \in SlackSends(w) : ~w.sends[i].call

\* C10: a Slack destination is skipped, without a call and without an error,
\* exactly when the clock as the destination is reached is at most the
\* entry's last_sent + slack_send_interval; when the previous delivery of the
\* entry made a Slack call and returned no error, and the Slack destination is
\* reached no later than slack_send_interval after that delivery's tick, this
\* delivery makes no Slack call.
C10_SlackSkippedWithinInterval ==
    \A w \in Workers :
        w.state = "done" =>
            \A i \in SlackSends(w) :
                /\ ~w.sends[i].call <=>
                        w.sends[i].at <= w.instance.LastSent + slackSendInterval
                /\ ~w.sends[i].call => w.sends[i].err = ""
                /\ (/\ w.prev.any /\ w.prev.slack /\ w.prev.ok
                    /\ w.sends[i].at <= w.prev.at + slackSendInterval)
                        => ~w.sends[i].call

\* The second delivery of an entry, a send interval after a first that called
\* Slack and returned no error, skips Slack and returns no error.
C10_Witness ==
    \E w \in Workers :
        /\ w.state = "done"
        /\ w.prev.any /\ w.prev.slack /\ w.prev.ok
        /\ w.err = ""
        /\ \E i \in SlackSends(w) : ~w.sends[i].call

HealthReply == reply.path = "/-/healthy"

\* C11 as stated: a probe that the checker never receives is answered 503.
C11_UnreceivedProbeAnswered503 ==
    (<>[](healthChan > 0)) => <>(HealthReply /\ reply.code = StatusServiceUnavailable)

\* Every answer to a probe is 200 ok.
C11_Answer == HealthReply => (reply.code = StatusOK /\ reply.body = "ok")

\* A probe returns only in a step in which the checker, in its select,
\* receives it, and is answered 200 ok then; while the checker is in wg.Wait
\* no probe returns.
C11_Receipt ==
    /\ healthChan' < healthChan =>
            /\ pc = "select"
            /\ healthChan' = healthChan - 1
            /\ HealthReply' /\ reply'.code = StatusOK
    /\ (reply' # reply /\ HealthReply') => healthChan' < healthChan
    /\ pc = "wait" => healthChan' >= healthChan

\* C11: a probe is answered 200 ok when the checker receives it and is not
\* answered, with 503 or otherwise, as long as the checker does not.
C11_ProbeAnsweredOnReceipt == []C11_Answer /\ [][C11_Receipt]_vars

\* A probe has been answered, and the next one is waiting while a delivery of
\* the running tick has lasted for the resolve-repeat time.
C11_Witness ==
    /\ HealthReply /\ reply.code = StatusOK
    /\ healthChan > 0
    /\ pc = "wait"
    /\ now >= tick.now + resolveRepeat

\* The response written last answers a POST of a heartbeat with status
\* resolved.
ResolvedHandled(r) ==
    r.path = "/alert" /\ r.handled # << >> /\ r.handled[1].Status = "resolved"

\* No entry, no message to the checker and no delivery comes from a heartbeat
\* with status resolved.
C12_NoTrace ==
    /\ \A k \in DOMAIN monitored : monitored[k].LastAlert.Status # "resolved"
    /\ \A handle \in handleChan : handle.instance.LastAlert.Status # "resolved"
    /\ \A w \in Workers : w.instance.LastAlert.Status # "resolved"

\* Handling a heartbeat with status resolved answers with success and leaves
\* the registry, the channel to the checker and the deliveries as they were.
C12_Frame ==
    \A alert \in Heartbeats(scenario) :
        (alert.Status = "resolved" /\ HandleAlert(alert)) =>
            /\ ResolvedHandled(reply') /\ reply'.code = StatusOK
            /\ monitored' = monitored
            /\ handleChan' = handleChan
            /\ toAlert' = toAlert

\* C12: a heartbeat whose status is resolved is answered with success, nothing
\* is sent to the checker, the registry keeps its keys and every field of
\* every entry, and no delivery results.
C12_ResolvedHeartbeatDropped == []C12_NoTrace /\ [][C12_Frame]_vars

\* A heartbeat with status resolved has been answered while its key is
\* registered, later than the heartbeat that set the entry's activate_at.
C12_Witness ==
    /\ ResolvedHandled(reply)
    /\ alertKey(reply.handled[1]) \in DOMAIN monitored
    /\ monitored[alertKey(reply.handled[1])].ActivateAt
            < now + activationDuration(reply.handled[1])

\* The override tokens of an entry that have the form key=value.
Tokens(instance) ==
    {i \in 1..Len(instance.OverrideLabels) : Len(SplitEq(instance.OverrideLabels[i])) = 2}

TokenKey(instance, i) == SplitEq(instance.OverrideLabels[i])[1]

TokenValue(instance, i) == SplitEq(instance.OverrideLabels[i])[2]

OverrideKeys(instance) == {TokenKey(instance, i) : i \in Tokens(instance)}

\* The label names of a heartbeat on any of its three tiers.
LabelNames(a) ==
    DOMAIN a.Labels \cup
        (IF a.Parent = NoParent THEN {}
         ELSE DOMAIN a.Parent[1].CommonLabels \cup DOMAIN a.Parent[1].GroupLabels)

\* C13 as stated: the outbound labels hold alertname with the configured
\* alertname and every key=value token of the override list.
C13_NameAndEveryOverride ==
    \A w \in Workers :
        LET l == w.alert.Labels
        IN  /\ "alertname" \in DOMAIN l /\ l["alertname"] = w.instance.AlertName
            /\ \A i \in Tokens(w.instance) :
                /\ TokenKey(w.instance, i) \in DOMAIN l
                /\ l[TokenKey(w.instance, i)] = TokenValue(w.instance, i)

\* C13: the outbound labels hold alertname, with the configured alertname
\* unless an override token names alertname; for every key named by a
\* key=value token they hold the value of the last token that names it; every
\* other label is the heartbeat's merged label, and the heartbeat's severity
\* and alertname are not among them.
C13_NameAndLastOverride ==
    \A w \in Workers :
        LET l == w.alert.Labels
            instance == w.instance
            others == DOMAIN l \ (OverrideKeys(instance) \cup {"alertname"})
            merged == {k \in LabelNames(instance.LastAlert) : k \notin {"severity", "alertname"}}
        IN  /\ "alertname" \in DOMAIN l
            /\ "alertname" \notin OverrideKeys(instance) => l["alertname"] = instance.AlertName
            /\ \A i \in Tokens(instance) :
                (\A j \in Tokens(instance) :
                    j > i => TokenKey(instance, j) # TokenKey(instance, i))
                => /\ TokenKey(instance, i) \in DOMAIN l
                   /\ l[TokenKey(instance, i)] = TokenValue(instance, i)
            /\ others = merged \ OverrideKeys(instance)
            /\ \A k \in others : l[k] = GetLabel(instance.LastAlert, k).value

\* A delivery whose override list names alertname: the outbound alertname is
\* the override's, and the heartbeat's severity is dropped.
C13_Witness ==
    \E w \in Workers :
        /\ w.state = "done"
        /\ "alertname" \in OverrideKeys(w.instance)
        /\ w.alert.Labels["alertname"] # w.instance.AlertName
        /\ GetLabel(w.instance.LastAlert, "severity").ok
        /\ "severity" \notin DOMAIN w.alert.Labels

\* The annotation names of a heartbeat on either of its two tiers.
AnnotationNames(a) ==
    DOMAIN a.Annotations \cup
        (IF a.Parent = NoParent THEN {} ELSE DOMAIN a.Parent[1].CommonAnnotations)

\* The annotation names of a heartbeat that are msda_ followed by something.
Projected(a) == {k \in AnnotationNames(a) : CutPrefix(k).has /\ CutPrefix(k).rest # ""}

\* For every annotation msda_X of the heartbeat, X not empty, the outbound
\* alert carries X with the value the heartbeat has for msda_X, its own before
\* the common one, and it carries no other annotation.
C14_Projection ==
    \A w \in Workers :
        LET a == w.instance.LastAlert
            out == w.alert.Annotations
        IN  /\ \A k \in Projected(a) :
                /\ CutPrefix(k).rest \in DOMAIN out
                /\ out[CutPrefix(k).rest] = GetAnnotation(a, k).value
            /\ DOMAIN out = {CutPrefix(k).rest : k \in Projected(a)}

\* C14 as stated: the projection, and no outbound annotation name begins with
\* msda_.
C14_ProjectionWithoutPrefix ==
    /\ C14_Projection
    /\ \A w \in Workers : \A x \in DOMAIN w.alert.Annotations : ~CutPrefix(x).has

\* C14: the projection, and an outbound annotation name begins with msda_
\* only as the X of an annotation msda_X of the heartbeat.
C14_ProjectionOnly ==
    /\ C14_Projection
    /\ \A w \in Workers : \A x \in DOMAIN w.alert.Annotations :
            CutPrefix(x).has =>
                \E k \in Projected(w.instance.LastAlert) :
                    CutPrefix(k).rest = x /\ CutPrefix(CutPrefix(k).rest).has

\* A delivery for a heartbeat with its own msda_test and with msda_test,
\* msda_other and msda_ in the common annotations of its batch: test has the
\* heartbeat's own value, other the common one.
C14_Witness ==
    \E w \in Workers :
        /\ w.state = "done"
        /\ "msda_test" \in DOMAIN w.instance.LastAlert.Annotations
        /\ w.alert.Annotations["test"] = w.instance.LastAlert.Annotations["msda_test"]
        /\ w.alert.Annotations["test"] # w.instance.LastAlert.Parent[1].CommonAnnotations["msda_test"]
        /\ w.alert.Annotations["other"] = w.instance.LastAlert.Parent[1].CommonAnnotations["msda_other"]
        /\ "msda_" \in AnnotationNames(w.instance.LastAlert)
        /\ DOMAIN w.alert.Annotations = {"test", "other"}

\* C15: the group labels of a delivery are the pairs of an identifier the
\* entry's heartbeat lists and the value of that label on the outbound alert;
\* an identifier named by an override token has the value of the last such
\* token, an identifier that is no outbound label is left out.
C15_GroupLabelsFromOutboundLabels ==
    \A w \in Workers :
        LET g == w.alert.GroupLabels
            l == w.alert.Labels
            ids == Range(idNames(w.instance.LastAlert))
        IN  /\ DOMAIN g = ids \cap DOMAIN l
            /\ \A id \in DOMAIN g : g[id] = l[id]
            /\ \A i \in Tokens(w.instance) :
                (/\ TokenKey(w.instance, i) \in ids
                 /\ \A j \in Tokens(w.instance) :
                        j > i => TokenKey(w.instance, j) # TokenKey(w.instance, i))
                => g[TokenKey(w.instance, i)] = TokenValue(w.instance, i)

\* A delivery for a heartbeat that lists severity and job: job is overridden
\* and grouped under the override's value, severity is dropped from the
\* labels and left out of the group labels.
C15_Witness ==
    \E w \in Workers :
        /\ w.state = "done"
        /\ Range(idNames(w.instance.LastAlert)) = {"severity", "job"}
        /\ "job" \in OverrideKeys(w.instance)
        /\ w.alert.GroupLabels["job"] # GetLabel(w.instance.LastAlert, "job").value
        /\ GetLabel(w.instance.LastAlert, "severity").ok
        /\ DOMAIN w.alert.GroupLabels = {"job"}

\* C16: a notification created at a tick whose now is after activate_at has
\* status firing, starts at activate_at and ends an expiry window later, also
\* when the tick is inside the entry's resolve-repeat window; one created at a
\* tick whose now is not after activate_at has status resolved; the generator
\* URL is the service's external URL.
C16_FiringWhenActive ==
    \A w \in Workers :
        /\ w.now > w.instance.ActivateAt =>
            /\ w.alert.Status = "firing"
            /\ w.alert.StartsAt = w.instance.ActivateAt
            /\ w.alert.EndsAt = w.instance.ActivateAt + expireTime
        /\ w.now <= w.instance.ActivateAt => w.alert.Status = "resolved"
        /\ w.alert.GeneratorURL = externalURL
        /\ w.alert.GeneratorURL # w.instance.LastAlert.Parent[1].ExternalURL

\* A firing notification for an entry that was resolved less than the
\* resolve-repeat time before the tick.
C16_Witness ==
    \E w \in Workers :
        /\ w.state = "done"
        /\ w.now > w.instance.ActivateAt
        /\ w.instance.ResolvedAt > ZeroTime
        /\ w.now < w.instance.ResolvedAt + resolveRepeat
        /\ w.alert.Status = "firing"

\* The heartbeats that are in the program: in the registry, on the channel,
\* with a worker, in the response written last.
Held ==
    {monitored[k].LastAlert : k \in DOMAIN monitored}
        \cup {handle.instance.LastAlert : handle \in handleChan}
        \cup {w.instance.LastAlert : w \in Workers}
        \cup Range(reply.handled)

GroupLabelsOf(a) == IF a.Parent = NoParent THEN EmptyMap ELSE a.Parent[1].GroupLabels

CommonLabelsOf(a) == IF a.Parent = NoParent THEN EmptyMap ELSE a.Parent[1].CommonLabels

CommonAnnotationsOf(a) ==
    IF a.Parent = NoParent THEN EmptyMap ELSE a.Parent[1].CommonAnnotations

\* C17: get_label returns the child's own value, else the common label, else
\* the group label, else nothing; get_all_labels has exactly the names
\* get_label finds, with the same values; annotations come from the child,
\* else from the common annotations, never from group data; and a heartbeat
\* that has been looked up is as the upstream sent it.
C17_ThreeTierLookup ==
    \A a \in Held :
        /\ \A key \in LabelNames(a) \cup {"missing"} :
            /\ GetLabel(a, key).ok <=> key \in LabelNames(a)
            /\ key \in DOMAIN a.Labels => GetLabel(a, key).value = a.Labels[key]
            /\ (key \notin DOMAIN a.Labels /\ key \in DOMAIN CommonLabelsOf(a))
                    => GetLabel(a, key).value = CommonLabelsOf(a)[key]
            /\ (key \notin DOMAIN a.Labels \cup DOMAIN CommonLabelsOf(a)
                    /\ key \in DOMAIN GroupLabelsOf(a))
                    => GetLabel(a, key).value = GroupLabelsOf(a)[key]
            /\ key \in DOMAIN GetLabels(a) <=> GetLabel(a, key).ok
            /\ key \in DOMAIN GetLabels(a) => GetLabels(a)[key] = GetLabel(a, key).value
        /\ DOMAIN GetLabels(a) \subseteq LabelNames(a)
        /\ \A key \in AnnotationNames(a) \cup DOMAIN GroupLabelsOf(a) \cup {"missing"} :
            /\ GetAnnotation(a, key).ok <=> key \in AnnotationNames(a)
            /\ key \in DOMAIN a.Annotations => GetAnnotation(a, key).value = a.Annotations[key]
            /\ (key \notin DOMAIN a.Annotations /\ key \in DOMAIN CommonAnnotationsOf(a))
                    => GetAnnotation(a, key).value = CommonAnnotationsOf(a)[key]
            /\ key \in DOMAIN GetAnnotations(a) <=> GetAnnotation(a, key).ok
            /\ key \in DOMAIN GetAnnotations(a)
                    => GetAnnotations(a)[key] = GetAnnotation(a, key).value
        /\ DOMAIN GetAnnotations(a) \subseteq AnnotationNames(a)
        /\ a \in Heartbeats(scenario) \cup UNION {Range(batch) : batch \in Batches}

\* A delivery has been made for a heartbeat with job on all three tiers,
\* namespace on the common and the group tier and cluster on the group tier
\* alone, each with a value of its own: the labels sent have the child's job,
\* the common namespace and the group's cluster.
C17_Witness ==
    \E w \in Workers :
        LET a == w.instance.LastAlert
        IN  /\ w.state = "done"
            /\ "job" \in DOMAIN a.Labels \cap DOMAIN CommonLabelsOf(a) \cap DOMAIN GroupLabelsOf(a)
            /\ a.Labels["job"] # CommonLabelsOf(a)["job"]
            /\ CommonLabelsOf(a)["job"] # GroupLabelsOf(a)["job"]
            /\ "namespace" \in (DOMAIN CommonLabelsOf(a) \cap DOMAIN GroupLabelsOf(a)) \ DOMAIN a.Labels
            /\ CommonLabelsOf(a)["namespace"] # GroupLabelsOf(a)["namespace"]
            /\ "cluster" \in DOMAIN GroupLabelsOf(a) \ DOMAIN CommonLabelsOf(a)
            /\ w.alert.Labels["job"] = a.Labels["job"]
            /\ w.alert.Labels["namespace"] = CommonLabelsOf(a)["namespace"]
            /\ w.alert.Labels["cluster"] = GroupLabelsOf(a)["cluster"]

Failing(batch, errs) == {i \in 1..Len(batch) : errs[i] # ""}

\* C18: a POST to the intake whose body decodes to a batch has the handler
\* invoked on every alert of the batch, in the order of the batch, whichever
\* invocations fail; the response is 500 with the error of the first failing
\* invocation if there is one, and 200 otherwise.
C18_EveryAlertHandled ==
    [][\A batch \in Batches, errs \in HandlerErrors :
            Post("POST", "", batch, errs) =>
                /\ reply'.handled = batch
                /\ Failing(batch, errs) = {} => reply'.code = StatusOK
                /\ Failing(batch, errs) # {} =>
                    /\ reply'.code = StatusInternalServerError
                    /\ \E i \in Failing(batch, errs) :
                        /\ \A j \in Failing(batch, errs) : i <= j
                        /\ reply'.body = errs[i]]_vars

\* A batch of two alerts has been posted of which the handler failed for the
\* first, or for both with different errors: both were handled and the
\* response is 500 with the first error.
C18_Witness ==
    \E batch \in Batches, errs \in HandlerErrors :
        /\ Len(batch) = 2
        /\ errs[1] # "" /\ errs[2] # errs[1]
        /\ reply = ServeHTTP("POST", "", batch, errs)
        /\ reply.handled = batch
        /\ reply.code = StatusInternalServerError
        /\ reply.body = errs[1]

\* C19: a modify request removes the entry of its key if and only if its method
\* is DELETE and the key is in the registry; a request for a key that is not
\* in the registry is answered 400; the other entries stay as they are; the
\* request looks at and changes the registry holding the writer lock, and
\* while it holds it no entry is added or removed by anyone else.
C19_ModifyRemovesOnDelete ==
    [][/\ Modify =>
            /\ mu.holder = "modify"
            /\ (mu.key \in DOMAIN monitored /\ mu.key \notin DOMAIN monitored')
                    <=> (mu.method = "DELETE" /\ mu.key \in DOMAIN monitored)
            /\ mu.key \notin DOMAIN monitored =>
                    /\ reply'.path = "/modify"
                    /\ reply'.code = StatusBadRequest
            /\ DOMAIN monitored' \subseteq DOMAIN monitored
            /\ \A k \in DOMAIN monitored \ {mu.key} :
                    k \in DOMAIN monitored' /\ monitored'[k] = monitored[k]
       /\ (mu.holder = "modify" /\ DOMAIN monitored' # DOMAIN monitored) => Modify
       /\ (mu.holder # "modify" /\ reply' # reply /\ reply'.path = "/modify") => FALSE]_vars

\* A DELETE for a key of the registry has been answered: its entry is gone and
\* another entry is still there.
C19_Witness ==
    /\ reply.path = "/modify"
    /\ reply.method = "DELETE"
    /\ reply.code = StatusOK
    /\ reply.key \notin DOMAIN monitored
    /\ DOMAIN monitored # {}
    /\ mu = NoLock

\* C20 as stated: a tick that removes an entry because
\* now > activate_at + expiry_window has a delivery with a firing notification
\* for it.
C20_FinalNotificationEmitted ==
    Ticking =>
        \A k \in tick.removed :
            k \in DOMAIN toAlert /\ toAlert[k].alert.Status = "firing"

\* C20: the tick that removes an entry because
\* now > activate_at + expiry_window starts a delivery for it, with a firing
\* notification, exactly if now > last_sent + send_interval; the entry is out
\* of the registry when the tick's pass is over, and the delivery returns
\* without bringing it back or changing the registry.
C20_FinalNotificationWhenDue ==
    [][/\ Tick =>
            \A k \in DOMAIN monitored :
                now > monitored[k].ActivateAt + expireTime =>
                    /\ k \notin DOMAIN monitored'
                    /\ k \in DOMAIN toAlert' <=> now > monitored[k].LastSent + sendInterval
                    /\ k \in DOMAIN toAlert' =>
                        /\ toAlert'[k].alert.Status = "firing"
                        /\ toAlert'[k].now = now
                        /\ toAlert'[k].state = "run"
       /\ \A k \in DOMAIN toAlert \ DOMAIN monitored :
            Alert(k) => /\ monitored' = monitored
                        /\ toAlert'[k].state = "done"]_vars

\* The delivery of the final firing notification of an entry has returned, the
\* request made and answered, and the entry is not in the registry.
C20_Witness ==
    /\ Ticking
    /\ \E k \in tick.removed :
        /\ k \notin DOMAIN monitored
        /\ Done(k)
        /\ toAlert[k].alert.Status = "firing"
        /\ toAlert[k].now > toAlert[k].instance.ActivateAt + expireTime
        /\ toAlert[k].now > toAlert[k].instance.LastSent + sendInterval
        /\ \E i \in 1..Len(toAlert[k].sends) : toAlert[k].sends[i].call
        /\ toAlert[k].err = ""

\* The checker receives a heartbeat for key k.
ReceiveFor(k) == \E handle \in handleChan : handle.key = k /\ Receive(handle)

\* The step is a tick that records activated_at for the entry of key k.
BeginsEpisode(k) ==
    /\ Tick
    /\ k \in DOMAIN monitored \cap DOMAIN monitored'
    /\ monitored'[k].ActivatedAt # monitored[k].ActivatedAt

\* C21 as stated: when a tick has recorded activated_at for a firing episode
\* of an entry, activated_at <= activate_at holds for the entry.
C21_ActivatedNotAfterActivateAt ==
    [][\A k \in DOMAIN monitored' :
            BeginsEpisode(k) => monitored'[k].ActivatedAt <= monitored'[k].ActivateAt]_vars

\* C21: the tick that begins a firing episode of an entry records its own time
\* as activated_at, which is after activate_at, and activated_at stays after
\* activate_at in every state until the checker receives the next heartbeat
\* for the key.
C21_ActivatedAfterActivateAt ==
    [][\A k \in DOMAIN monitored' :
            /\ BeginsEpisode(k) =>
                    /\ monitored'[k].ActivatedAt = now
                    /\ monitored'[k].ActivatedAt > monitored'[k].ActivateAt
            /\ (/\ k \in DOMAIN monitored
                /\ monitored[k].ActivatedAt > monitored[k].ActivateAt
                /\ ~ReceiveFor(k))
                    => monitored'[k].ActivatedAt > monitored'[k].ActivateAt]_vars

\* A tick of a firing episode that began at an earlier tick: the entry's
\* activated_at is the time of that earlier tick, after its activate_at.
C21_Witness ==
    /\ Ticking
    /\ \E k \in DOMAIN monitored :
        /\ monitored[k].ActivatedAt # ZeroTime
        /\ monitored[k].ActivatedAt < tick.now
        /\ monitored[k].ActivatedAt > monitored[k].ActivateAt
        /\ tick.now > monitored[k].ActivateAt

\* C22 as stated: every entry whose resolved_at is not zero has
\* resolved_at >= activated_at.
C22_ResolvedNotBeforeActivated ==
    \A k \in DOMAIN monitored :
        monitored[k].ResolvedAt # ZeroTime
            => monitored[k].ResolvedAt >= monitored[k].ActivatedAt

\* C22: an ingest that sets resolved_at of an entry sets it to its own time,
\* which is not before the entry's activated_at; resolved_at >= activated_at
\* then holds of the entry in every state until a tick begins a further firing
\* episode of it.
C22_ResolvedNotBeforeActivatedWhenSet ==
    [][\A k \in DOMAIN monitored \cap DOMAIN monitored' :
            /\ (ReceiveFor(k) /\ monitored[k].LastSent > monitored[k].ActivateAt) =>
                    /\ monitored'[k].ResolvedAt = now
                    /\ monitored'[k].ResolvedAt # ZeroTime
                    /\ monitored'[k].ResolvedAt >= monitored'[k].ActivatedAt
            /\ (/\ monitored[k].ResolvedAt # ZeroTime
                /\ monitored[k].ResolvedAt >= monitored[k].ActivatedAt
                /\ ~BeginsEpisode(k)) =>
                    /\ monitored'[k].ResolvedAt # ZeroTime
                    /\ monitored'[k].ResolvedAt >= monitored'[k].ActivatedAt]_vars

\* A firing episode of an entry has been closed by a heartbeat: resolved_at is
\* the time of that ingest, after the activated_at of the episode, and the
\* episode's last delivery was a success.
C22_Witness ==
    \E k \in DOMAIN monitored :
        /\ monitored[k].ActivatedAt # ZeroTime
        /\ monitored[k].ResolvedAt > monitored[k].ActivatedAt
        /\ monitored[k].LastSent >= monitored[k].ActivatedAt
        /\ monitored[k].ActivateAt > monitored[k].ResolvedAt

\* C23: the delivery fan-out of every tick terminates: the workers return,
\* wg.Wait returns, and the checker is back in its select, where it serves
\* ticks, heartbeats and health probes.
C23_FanOutTerminates == Ticking ~> (pc = "select")

\* C24: when the checker applies a heartbeat (key, proposed), a key that is
\* not in the registry gets the proposed record, with zero activated_at,
\* resolved_at and last_sent and empty last_error; a key that is in it gets a
\* record with the proposed activate_at, alertname, override labels,
\* destinations, receiver and last_alert and with the activated_at, last_sent
\* and last_error of the record it had; the entries of all other keys are
\* unchanged.
C24_IngestFrame ==
    [][\A handle \in handleChan :
            Receive(handle) =>
                LET key == handle.key
                    proposed == handle.instance
                IN  /\ DOMAIN monitored' = DOMAIN monitored \cup {key}
                    /\ \A k \in DOMAIN monitored \ {key} : monitored'[k] = monitored[k]
                    /\ key \notin DOMAIN monitored =>
                        /\ monitored'[key] = proposed
                        /\ monitored'[key].ActivatedAt = ZeroTime
                        /\ monitored'[key].ResolvedAt = ZeroTime
                        /\ monitored'[key].LastSent = ZeroTime
                        /\ monitored'[key].LastError = ""
                    /\ key \in DOMAIN monitored =>
                        /\ monitored'[key].ActivateAt = proposed.ActivateAt
                        /\ monitored'[key].AlertName = proposed.AlertName
                        /\ monitored'[key].OverrideLabels = proposed.OverrideLabels
                        /\ monitored'[key].AlertManagers = proposed.AlertManagers
                        /\ monitored'[key].Receiver = proposed.Receiver
                        /\ monitored'[key].LastAlert = proposed.LastAlert
                        /\ monitored'[key].ActivatedAt = monitored[key].ActivatedAt
                        /\ monitored'[key].LastSent = monitored[key].LastSent
                        /\ monitored'[key].LastError = monitored[key].LastError]_vars

\* A heartbeat has just been applied to an entry that had fired and whose last
\* delivery failed after an earlier success: the entry has the new
\* activate_at and the old activated_at, last_sent and last_error; another
\* entry is in the registry.
C24_Witness ==
    /\ reply.path = "/alert"
    /\ reply.code = StatusOK
    /\ \E k \in DOMAIN monitored :
        /\ reply.handled = <<monitored[k].LastAlert>>
        /\ monitored[k].ActivateAt >= now
        /\ monitored[k].ActivatedAt # ZeroTime
        /\ monitored[k].LastSent # ZeroTime
        /\ monitored[k].LastError # ""
        /\ DOMAIN monitored # {k}

\* The heartbeat of the handle uses the activation window of the heartbeat the
\* entry of its key was stored for.
SameWindow(handle) ==
    /\ handle.key \in DOMAIN monitored
    /\ activationDuration(handle.instance.LastAlert)
            = activationDuration(monitored[handle.key].LastAlert)

C26_ClearedByNewEpisode ==
    \A k \in DOMAIN monitored :
        monitored[k].ActivatedAt > monitored[k].ActivateAt
            => monitored[k].ResolvedAt = ZeroTime

\* C26: resolved_at of an entry changes only at an ingest for its key that
\* finds last_sent after activate_at, and then to the time of that ingest; no
\* tick and no delivery changes it, and the tick that begins a firing episode
\* leaves it as it is, so that it is never reset to zero.
C26_ResolvedAtKept ==
    [][\A k \in DOMAIN monitored \cap DOMAIN monitored' :
            /\ monitored'[k].ResolvedAt # monitored[k].ResolvedAt =>
                    /\ ReceiveFor(k)
                    /\ monitored[k].LastSent > monitored[k].ActivateAt
                    /\ monitored'[k].ResolvedAt = now
            /\ monitored[k].ResolvedAt # ZeroTime => monitored'[k].ResolvedAt # ZeroTime
            /\ BeginsEpisode(k) => monitored'[k].ResolvedAt = monitored[k].ResolvedAt]_vars

\* An entry is in its second firing episode, begun at a tick after the
\* heartbeat that ended the first: resolved_at still is the time the first
\* one ended.
C26_Witness ==
    /\ Ticking
    /\ \E k \in DOMAIN monitored \cap DOMAIN toAlert :
        /\ toAlert[k].alert.Status = "firing"
        /\ monitored[k].ActivatedAt = tick.now
        /\ monitored[k].ActivatedAt > monitored[k].ActivateAt
        /\ monitored[k].ResolvedAt # ZeroTime
        /\ monitored[k].ResolvedAt < monitored[k].ActivateAt

\* C27: a tick assigns activated_at of an entry exactly when it creates a
\* delivery for it with the entry active and activate_at after activated_at,
\* and assigns the tick's time; once assigned it is after activate_at and no
\* tick assigns it again before the next ingest for the key; a tick whose
\* delivery is on the resolve path leaves it alone; and no other step, the
\* return of a delivery with or without error included, changes it.
C27_ActivatedAtAssignedOnce ==
    [][\A k \in DOMAIN monitored \cap DOMAIN monitored' :
            /\ Tick =>
                /\ monitored'[k].ActivatedAt # monitored[k].ActivatedAt
                    <=> /\ k \in DOMAIN toAlert'
                        /\ now > monitored[k].ActivateAt
                        /\ monitored[k].ActivateAt > monitored[k].ActivatedAt
                /\ monitored'[k].ActivatedAt # monitored[k].ActivatedAt
                    => monitored'[k].ActivatedAt = now
                /\ monitored[k].ActivatedAt > monitored[k].ActivateAt
                    => monitored'[k].ActivatedAt = monitored[k].ActivatedAt
                /\ (k \in DOMAIN toAlert' /\ toAlert'[k].alert.Status = "resolved")
                    => monitored'[k].ActivatedAt = monitored[k].ActivatedAt
            /\ monitored'[k].ActivatedAt # monitored[k].ActivatedAt => Tick]_vars

\* A later tick of a firing episode whose first delivery failed: the delivery
\* of this tick has returned too, the entry was never delivered, and its
\* activated_at is the time of the episode's first tick.
C27_Witness ==
    /\ Ticking
    /\ \E k \in DOMAIN monitored :
        /\ Done(k)
        /\ toAlert[k].alert.Status = "firing"
        /\ monitored[k].LastSent = ZeroTime
        /\ monitored[k].LastError # ""
        /\ monitored[k].ActivatedAt > monitored[k].ActivateAt
        /\ monitored[k].ActivatedAt < tick.now

\* C28 as stated: a delivery on the resolve path that returns without error
\* has issued a notification: a request has been made to a destination.
C28_ResolvedNotificationIssued ==
    \A w \in Workers :
        (w.state = "done" /\ w.alert.Status = "resolved" /\ w.err = "")
            => \E i \in Sends(w) : w.sends[i].call

\* C28: a tick that finds an entry not active creates a delivery for it
\* exactly if now < resolved_at + resolve_repeat and
\* now > last_sent + send_interval, and the notification of that delivery has
\* status resolved; so no tick with now >= resolved_at + resolve_repeat
\* creates one while the entry is not active.  The delivery makes no request
\* to a destination of kind slack that it reaches at or before
\* last_sent + slack_send_interval, and counts that as success.
C28_ResolveRepeatWindow ==
    [][/\ Tick =>
            \A k \in DOMAIN monitored :
                now <= monitored[k].ActivateAt =>
                    /\ k \in DOMAIN toAlert'
                        <=> /\ now < monitored[k].ResolvedAt + resolveRepeat
                            /\ now > monitored[k].LastSent + sendInterval
                    /\ k \in DOMAIN toAlert' =>
                        /\ toAlert'[k].alert.Status = "resolved"
                        /\ toAlert'[k].now = now
       /\ \A k \in DOMAIN toAlert :
            (toAlert[k].alert.Status = "resolved" /\ Alert(k)) =>
                \A i \in 1..Len(toAlert'[k].sends) :
                    LET send == toAlert'[k].sends[i]
                    IN  (/\ send.kind = "slack"
                         /\ send.at <= toAlert[k].instance.LastSent + slackSendInterval)
                            => ~send.call /\ send.err = ""]_vars

\* A delivery on the resolve path has returned without error for an entry
\* whose only destination is of kind slack and whose firing notification went
\* to Slack less than slack_send_interval before: no request was made.
C28_Witness ==
    \E w \in Workers :
        /\ w.state = "done"
        /\ w.alert.Status = "resolved"
        /\ w.now < w.instance.ResolvedAt + resolveRepeat
        /\ w.now > w.instance.LastSent + sendInterval
        /\ w.err = ""
        /\ w.prev.any /\ w.prev.slack
        /\ \A i \in Sends(w) : w.sends[i].kind = "slack" /\ ~w.sends[i].call

\* The fields of an instance that HandleAlert takes from the heartbeat.
Configuration(instance) ==
    [ActivateAt |-> instance.ActivateAt, AlertName |-> instance.AlertName,
     OverrideLabels |-> instance.OverrideLabels,
     AlertManagers |-> instance.AlertManagers, Receiver |-> instance.Receiver,
     LastAlert |-> instance.LastAlert]

\* C29: the handling of a firing heartbeat leaves the registry alone and does
\* not return; it returns, with success, in the step in which the checker, in
\* its select and so between two ticks, receives the message and stores the
\* entry with the heartbeat's activate_at and configuration; and a tick
\* decides on the entries as they are in the registry when it starts.
C29_AppliedBeforeNextTick ==
    [][/\ \A alert \in Heartbeats(scenario) :
            (alert.Status = "firing" /\ HandleAlert(alert)) =>
                /\ reply' = reply
                /\ monitored' = monitored
                /\ \E handle \in handleChan' :
                    handle.key = alertKey(alert) /\ handle.instance.LastAlert = alert
       /\ (/\ Handler(scenario) = "checker"
           /\ reply' # reply
           /\ reply'.path = "/alert"
           /\ \E i \in 1..Len(reply'.handled) : reply'.handled[i].Status = "firing") =>
                \E handle \in handleChan :
                    /\ Receive(handle)
                    /\ reply'.handled = <<handle.instance.LastAlert>>
       /\ \A handle \in handleChan :
            Receive(handle) =>
                /\ pc = "select" /\ pc' = "select"
                /\ toAlert' = toAlert /\ tick' = tick
                /\ handle.key \in DOMAIN monitored'
                /\ Configuration(monitored'[handle.key]) = Configuration(handle.instance)
                /\ reply'.code = StatusOK
                /\ reply'.handled = <<handle.instance.LastAlert>>
       /\ Tick =>
            \A k \in DOMAIN toAlert' :
                /\ k \in DOMAIN monitored
                /\ Configuration(toAlert'[k].instance) = Configuration(monitored[k])]_vars

\* The handler of a heartbeat was blocked while the checker waited for a
\* delivery, has returned since, and the tick after its return decides on the
\* entry with that heartbeat's activate_at.
C29_Witness ==
    /\ Ticking
    /\ reply.path = "/alert"
    /\ reply.code = StatusOK
    /\ \E k \in DOMAIN monitored \cap DOMAIN toAlert :
        /\ reply.handled = <<monitored[k].LastAlert>>
        /\ Configuration(toAlert[k].instance) = Configuration(monitored[k])
        /\ monitored[k].ActivateAt
                < monitored[k].ResolvedAt + activationDuration(monitored[k].LastAlert)
        /\ monitored[k].ResolvedAt # ZeroTime

\* C30: a tick starts its workers when no worker of an earlier tick is left,
\* one for each entry it decided to deliver for; the checker takes up a tick
\* or a heartbeat only when all workers have returned; and the return of a
\* worker changes nothing in the registry but last_sent and last_error of the
\* entry it was started for: no other entry, no other field, and not the set
\* of keys.
C30_WorkersWriteOwnEntry ==
    [][/\ Tick =>
            /\ toAlert = Empty
            /\ DOMAIN toAlert' \subseteq DOMAIN monitored
            /\ \A k \in DOMAIN toAlert' : toAlert'[k].state = "run"
       /\ (Tick \/ \E handle \in handleChan : Receive(handle)) =>
            /\ pc = "select"
            /\ \A k \in DOMAIN toAlert : toAlert[k].state = "done"
       /\ Wait => /\ \A k \in DOMAIN toAlert : toAlert[k].state = "done"
                  /\ toAlert' = Empty
       /\ \A k \in DOMAIN toAlert :
            Alert(k) =>
                /\ toAlert[k].state = "run"
                /\ DOMAIN monitored' = DOMAIN monitored
                /\ \A j \in DOMAIN monitored \ {k} : monitored'[j] = monitored[j]
                /\ k \in DOMAIN monitored =>
                    monitored'[k] = [monitored[k] EXCEPT
                                        !.LastSent = monitored'[k].LastSent,
                                        !.LastError = monitored'[k].LastError]
                /\ \A j \in DOMAIN toAlert \ {k} : toAlert'[j] = toAlert[j]]_vars

\* The worker of one entry has returned and has recorded its tick's time as
\* last_sent, while the worker the same tick started for another entry is
\* still running.
C30_Witness ==
    /\ Ticking
    /\ \E k1, k2 \in DOMAIN toAlert \cap DOMAIN monitored :
        /\ k1 # k2
        /\ Done(k1)
        /\ monitored[k1].LastSent = tick.now
        /\ toAlert[k2].state = "run"
        /\ monitored[k2].LastSent # tick.now

\* The status handler holds the read lock.
Reading == mu.holder = "status"

\* C31: while the status handler holds the registry's read lock, no field of
\* any registry entry and no mapping slot is written.
C31_NoWriteUnderReadLock == [][Reading => monitored' = monitored]_vars

\* The destinations of a finished delivery that set an error.
Failed(w) == {i \in Sends(w) : w.sends[i].err # ""}

\* C32: within one delivery every destination of the entry's list whose URL
\* parses is gone through in list order whatever the outcome of those before
\* it: one of kind am or webhook is called, one of kind slack is called
\* unless its rate limit holds it back, one of another kind fails without a
\* call; the error handed back to the worker is that of the last destination
\* that failed, and none if none failed.
C32_EveryDestinationAttempted ==
    \A w \in Workers :
        w.state = "done" =>
            /\ Len(w.sends) = Len(w.instance.AlertManagers)
            /\ \A i \in Sends(w) :
                LET send == w.sends[i]
                    u == urlParse(w.instance.AlertManagers[i])
                IN  /\ send.url = w.instance.AlertManagers[i]
                    /\ \A j \in Sends(w) : i < j => send.at <= w.sends[j].at
                    /\ ~u.err =>
                        /\ send.kind = deliverType(u)
                        /\ send.kind \in {"am", "webhook"} => send.call
                        /\ send.kind = "slack" =>
                            send.call = (send.at > w.instance.LastSent + slackSendInterval)
                        /\ send.kind \notin {"am", "webhook", "slack"} => send.err # ""
            /\ w.err = IF Failed(w) = {} THEN ""
                       ELSE w.sends[CHOOSE i \in Failed(w) : \A j \in Failed(w) : j <= i].err

\* A delivery whose first destination failed and whose second one was called
\* and accepted the notification.
C32_Witness ==
    \E w \in Workers :
        /\ w.state = "done"
        /\ Len(w.sends) >= 2
        /\ w.sends[1].err # ""
        /\ w.sends[2].call /\ w.sends[2].result = "ok"
        /\ w.err = w.sends[1].err

\* C33: after every completed operation that inserts into or deletes from the
\* registry (ingest of a new key, expiry in a tick, delete through the modify
\* surface) the monitored-instances gauge equals the number of entries in the
\* registry.
C33_GaugeCountsEntries ==
    [][DOMAIN monitored' # DOMAIN monitored =>
            instanceMetric' = Cardinality(DOMAIN monitored')]_vars

\* The type label the intake error counter is documented to carry for a
\* request, "" for a request that is no error.
DocumentedType(method, decodeErr, batch, errs) ==
    IF method \in {"HEAD", "OPTIONS"} THEN ""
    ELSE IF method # "POST" THEN "wrong_method"
    ELSE IF decodeErr # "" THEN "decode"
    ELSE IF Failing(batch, errs) # {} THEN "handler"
    ELSE ""

\* C34: every increment of the intake error counter carries a type label of
\* wrong_method, decode, handler: a request that is not a POST increments
\* wrong_method, one with an undecodable body decode, one in which an
\* invocation of the handler failed handler, each by one and once a request.
C34_ErrorTypeLabels ==
    [][\A method \in Methods(scenario), decodeErr \in {"", "unexpected EOF"},
         batch \in Batches, errs \in HandlerErrors :
            Post(method, decodeErr, batch, errs) =>
                LET type == DocumentedType(method, decodeErr, batch, errs)
                IN  /\ DOMAIN errorsMetric' = {"wrong_method", "decode", "handler"}
                    /\ \A t \in DOMAIN errorsMetric' :
                        errorsMetric'[t] = IF t = type THEN errorsMetric[t] + 1
                                           ELSE errorsMetric[t]]_vars

\* The msd_activation annotation of the heartbeat is no duration.
Unparsed(alert) ==
    ParseDuration(GetAnnotationDefault(alert, "msd_activation", <<<<"10m">>>>)).err

\* C35: a firing heartbeat whose msd_activation annotation cannot be parsed
\* as a duration is handed to the checker with activate_at = now + 10
\* minutes, its handling returns success, and the resulting entry has that
\* activate_at.
C35_UnparsedActivationAccepted ==
    [][/\ \A alert \in Heartbeats(scenario) :
            (Unparsed(alert) /\ ~dropped(alert) /\ HandleAlert(alert)) =>
                \E handle \in handleChan' :
                    /\ handle.key = alertKey(alert)
                    /\ handle.instance.LastAlert = alert
                    /\ handle.instance.ActivateAt = now + 10 * 60
       /\ \A handle \in handleChan :
            (Unparsed(handle.instance.LastAlert) /\ Receive(handle)) =>
                /\ reply'.path = "/alert" /\ reply'.code = StatusOK
                /\ handle.key \in DOMAIN monitored'
                /\ monitored'[handle.key].LastAlert = handle.instance.LastAlert
                /\ monitored'[handle.key].ActivateAt = handle.instance.ActivateAt]_vars

\* An entry made from a heartbeat whose msd_activation is no duration has
\* become active ten minutes after the heartbeat was handled.
C35_Witness ==
    \E k \in DOMAIN monitored :
        /\ Unparsed(monitored[k].LastAlert)
        /\ monitored[k].ActivateAt = StartTime + defaultActivation
        /\ monitored[k].ActivatedAt > monitored[k].ActivateAt

\* The destinations of kind am of a finished delivery.
AmSends(w) == {i \in Sends(w) : w.sends[i].kind = "am"}

\* C36 as stated: for an entry that is firing with a destination of kind am
\* that accepts every notification and one of kind slack, a delivery that
\* follows one with a Slack call by less than slack_send_interval makes no
\* Slack call.
C36_OneSlackCall ==
    \A w \in Workers :
        (/\ w.state = "done" /\ w.alert.Status = "firing"
         /\ AmSends(w) # {} /\ \A i \in AmSends(w) : w.sends[i].result = "ok"
         /\ w.prev.any /\ w.prev.slack /\ w.prev.am
         /\ w.now - w.prev.at < slackSendInterval)
            => \A i \in SlackSends(w) : ~w.sends[i].call

\* C36: a delivery that returns no error sets last_sent to the time of its
\* tick, whether or not it called Slack, and one that returns an error leaves
\* last_sent as it was; a delivery whose predecessor for the entry returned no
\* error and which reaches its Slack destination no later than
\* slack_send_interval after that predecessor's tick makes no Slack call, and
\* returns no error itself when its am destinations accept.
C36_SlackMeasuredAgainstLastSent ==
    [][\A k \in DOMAIN toAlert \cap DOMAIN monitored :
        Alert(k) =>
            LET w == toAlert'[k]
            IN  /\ w.err = "" => monitored'[k].LastSent = w.now
                /\ w.err # "" => monitored'[k].LastSent = monitored[k].LastSent
                /\ (/\ w.prev.any /\ w.prev.ok
                    /\ w.instance.AlertManagers = <<"http://am1", "slack+http://hook">>)
                        => /\ w.instance.LastSent = w.prev.at
                           /\ \A i \in SlackSends(w) :
                                w.sends[i].at <= w.prev.at + slackSendInterval
                                    => ~w.sends[i].call
                           /\ (/\ \A i \in AmSends(w) : w.sends[i].result = "ok"
                               /\ \A i \in SlackSends(w) : ~w.sends[i].call)
                                    => w.err = ""]_vars

\* The third delivery in a row of an entry with an am and a Slack destination:
\* the first called Slack, the second skipped it and returned no error, and
\* the third skips it again.
C36_Witness ==
    \E k \in DOMAIN monitored \cap DOMAIN toAlert, w \in Workers :
        /\ w = toAlert[k] /\ w.state = "done" /\ w.err = ""
        /\ w.prev.any /\ w.prev.ok /\ ~w.prev.slack
        /\ AmSends(w) # {}
        /\ SlackSends(w) # {} /\ \A i \in SlackSends(w) : ~w.sends[i].call
        /\ monitored[k].LastSent = w.now

\* The destination list of the entry is empty or holds only words that are
\* no URL ("://bad" has no scheme before its colon).
Nowhere(instance) ==
    \A i \in 1..Len(instance.AlertManagers) : instance.AlertManagers[i] = "://bad"

\* C37: a delivery whose destination list is empty, or all of whose
\* destination URLs fail to parse, makes no outbound request and is recorded as
\* a success: last_sent is set to the tick time and last_error is unchanged;
\* no tick up to send_interval after that tick creates a delivery for the
\* entry.
C37_NowhereIsSuccess ==
    [][/\ \A k \in DOMAIN toAlert :
            (Nowhere(toAlert[k].instance) /\ Alert(k)) =>
                /\ \A i \in Sends(toAlert'[k]) :
                        ~toAlert'[k].sends[i].call /\ ~toAlert'[k].sends[i].reached
                /\ toAlert'[k].err = ""
                /\ k \in DOMAIN monitored =>
                        /\ monitored'[k].LastSent = toAlert[k].now
                        /\ monitored'[k].LastError = monitored[k].LastError
       /\ \A k \in DOMAIN monitored :
            (/\ Tick /\ Nowhere(monitored[k]) /\ hist[k].any
             /\ now <= hist[k].at + sendInterval)
                => k \notin DOMAIN toAlert']_vars

\* An entry without destinations and one whose only destination is no URL
\* have both had a delivery, and the tick a send interval later has created
\* none.
C37_Witness ==
    /\ pc = "wait"
    /\ toAlert = Empty
    /\ \E k \in DOMAIN monitored : monitored[k].AlertManagers = << >>
    /\ \E k \in DOMAIN monitored : monitored[k].AlertManagers = <<"://bad">>
    /\ \A k \in DOMAIN monitored :
        /\ Nowhere(monitored[k])
        /\ hist[k].any /\ hist[k].ok
        /\ monitored[k].LastSent + sendInterval = tick.now
        /\ now > monitored[k].ActivateAt

\* C38: a delivery that returns no error sets the entry's last_sent to the
\* time of its tick and leaves last_error as it was, an earlier error text
\* included; a delivery that returns an error sets last_error to it and leaves
\* last_sent as it was; no delivery changes activate_at, activated_at,
\* resolved_at or the configuration of its entry.
C38_DeliveryFrame ==
    [][\A k \in DOMAIN toAlert \cap DOMAIN monitored :
        Alert(k) =>
            LET w == toAlert'[k]
                old == monitored[k]
                new == monitored'[k]
            IN  /\ w.err = "" => /\ new.LastSent = toAlert[k].now
                                 /\ new.LastError = old.LastError
                /\ w.err # "" => /\ new.LastError = w.err
                                 /\ new.LastSent = old.LastSent
                /\ new.ActivateAt = old.ActivateAt
                /\ new.ActivatedAt = old.ActivatedAt
                /\ new.ResolvedAt = old.ResolvedAt
                /\ Configuration(new) = Configuration(old)]_vars

\* A delivery has returned no error for an entry that still shows the error
\* of an earlier delivery.
C38_Witness ==
    \E k \in DOMAIN toAlert \cap DOMAIN monitored :
        /\ Done(k)
        /\ toAlert[k].err = ""
        /\ toAlert[k].prev.any /\ ~toAlert[k].prev.ok
        /\ monitored[k].LastSent = toAlert[k].now
        /\ monitored[k].LastError # ""

\* The deliveries of the running tick whose notification has status resolved.
Resolving == {w \in Workers : w.alert.Status = "resolved"}

\* C39 as stated: every outbound notification with status resolved has a
\* non-zero starts_at and starts_at <= ends_at.
C39_ResolvedStartsBeforeEnds ==
    \A w \in Resolving :
        w.alert.StartsAt # ZeroTime /\ w.alert.StartsAt <= w.alert.EndsAt

\* C39: every outbound notification with status resolved has a non-zero
\* starts_at and a non-zero ends_at, the entry's activated_at and resolved_at;
\* starts_at <= ends_at when a delivery with status firing has returned no
\* error for the entry since activated_at was recorded.
C39_ResolvedStartsBeforeEndsAfterSuccess ==
    \A w \in Resolving :
        /\ w.alert.StartsAt = w.instance.ActivatedAt
        /\ w.alert.EndsAt = w.instance.ResolvedAt
        /\ w.alert.StartsAt # ZeroTime
        /\ w.alert.EndsAt # ZeroTime
        /\ w.prev.firedAt >= w.instance.ActivatedAt => w.alert.StartsAt <= w.alert.EndsAt

\* A notification with status resolved has been sent for an episode that was
\* notified as firing.
C39_Witness ==
    \E w \in Resolving :
        /\ w.prev.firedAt >= w.instance.ActivatedAt
        /\ w.alert.StartsAt < w.alert.EndsAt
        /\ w.state = "done"

\* No delivery with status firing has returned no error for the entry of key
\* k since the entry was created.
NeverFired(k) == hist[k].firedAt = ZeroTime

\* C40: a notification with status resolved is issued for a key only after a
\* delivery with status firing, made at a tick with now > activate_at, has
\* returned no error during the life of the key's entry; an entry whose firing
\* deliveries all returned errors has resolved_at zero and last_sent zero, and
\* no tick creates a delivery with status resolved for it; last_sent of any
\* other entry is no earlier than its latest successful firing delivery.
C40_ResolvedOnlyAfterFiringSuccess ==
    /\ \A w \in Resolving : w.prev.firedAt # ZeroTime
    /\ \A k \in DOMAIN monitored :
        /\ NeverFired(k) =>
            /\ monitored[k].ResolvedAt = ZeroTime
            /\ monitored[k].LastSent = ZeroTime
        /\ ~NeverFired(k) =>
            /\ hist[k].firedAt <= monitored[k].LastSent
            /\ hist[k].firedAt <= now
    /\ \A k \in DOMAIN toAlert \cap DOMAIN monitored :
        (toAlert[k].state = "run" /\ NeverFired(k)) => toAlert[k].alert.Status = "firing"

\* The firing delivery of an entry has failed, its heartbeat has resumed, and
\* the tick after that creates no delivery for it.
C40_Witness ==
    /\ pc = "wait"
    /\ \E k \in DOMAIN monitored :
        /\ NeverFired(k)
        /\ hist[k].any /\ ~hist[k].ok
        /\ monitored[k].LastError # ""
        /\ tick.now > hist[k].at
        /\ tick.now <= monitored[k].ActivateAt
        /\ k \notin DOMAIN toAlert

====
